---- MODULE Spec2Model ----
(***************************************************************************)
(* Model of the enterprise-log-analyzer streaming pipeline:                *)
(*   - the issues aggregator (app/streams/issues_aggregator.py),           *)
(*   - the online clusterer (app/services/online_clustering.py),           *)
(*   - the cluster enricher (app/streams/cluster_enricher.py),             *)
(*   - the alert store endpoints (app/api/v1/endpoints/alerts.py).         *)
(* Redis streams, consumer groups, counters, hashes and sets and the       *)
(* vector-store collections are modelled by their documented semantics.    *)
(***************************************************************************)
EXTENDS Integers, Sequences, FiniteSets, TLC

(***************************************************************************)
(* Bounds of the model and values chosen for the settings.                 *)
(***************************************************************************)
MaxLogs == 3          \* log events the producers append to the logs stream
MaxClock == 1         \* wall clock runs 0..MaxClock
BatchCount == 2       \* the count argument of XREADGROUP (100 in the code)
CLUSTER_MIN_LOGS_FOR_CLASSIFICATION == 2
ONLINE_CLUSTER_DISTANCE_THRESHOLD == 1
ISSUE_INACTIVITY_SEC == 1
ISSUE_MAX_LOGS_FOR_LLM == 2
BackoffCap == 10      \* min(backoff * 2, 10)
MaxIssuesOut == 3     \* records kept of the issues:candidates stream
MaxFaults == 1        \* failing calls (Redis, vector store, parser) in one run
MaxCands == 2         \* entries appended to clusters:candidates for the enricher
EnrBatchCount == 2    \* the count argument of the enricher's XREADGROUP (5)
MaxRestarts == 1      \* restarts of the application
MaxRequests == 2      \* requests made to the alert endpoints
MaxAlerts == 1        \* alerts in the stream while the endpoints are exercised
MaxProtos == 2        \* prototypes the direct clusterer calls create
MaxText == 2          \* templated texts of the direct clusterer calls are 0..MaxText
MaxThreshold == 1     \* thresholds passed to the clusterer are 0..MaxThreshold
MaxRepubEvery == 3    \* CLUSTER_CANDIDATE_REPUBLISH_EVERY is 1..MaxRepubEvery when enabled
MaxMs == 2
MaxCorrCalls == 2
MaxClusters == 2
MaxSamples == 2        \* sample logs in one clustering payload
MaxEnvCalls == 1
MaxLimit == 2
CACHE_TTL_SEC == 1     \* _CACHE_TTL_SEC and _CORR_CACHE_TTL_SEC, 30 s, scaled
MaxWall == 3           \* the last second of the wall clock
MaxTtlCalls == 2       \* requests to the cached handlers
MaxCrashes == 6        \* crashes of one worker
MaxDocs == 3           \* documents of one cluster in logs_<os>
MaxSampleLogs == 2     \* sample logs of a candidate
MaxMinInterval == 1   \* CLUSTER_CANDIDATE_REPUBLISH_MIN_INTERVAL_SEC is 0..MaxMinInterval

(***************************************************************************)
(* Log events.  A log line is reduced to what the pipeline derives from    *)
(* it: the os routed from its source, the templated text (a point on a     *)
(* line, so that distances between texts exist) and the component of the   *)
(* parsed line.                                                            *)
(***************************************************************************)
LogKinds ==
    { [os |-> "linux", text |-> 1, component |-> "sshd"],
      [os |-> "linux", text |-> 4, component |-> "kernel"] }

MsgIds == 1..MaxLogs
NoCluster == 0        \* the empty cluster id ""
NoSolution == ""      \* a prototype's metadata has no key solution
\* samples[:10]: the number of sample logs an overlay keeps, scaled down
OverlaySampleCut == 1
\* limit=30 of the evidence lookup and sample_logs[:10], scaled down
EvidenceLimit == 2
SampleLogsCut == 1

\* float(redis.get(last_key) or 0.0) for a key that is not there: the epoch,
\* far before the clock of the model, which starts at 0 with the run
EpochTs == -100
ClusterIds == 1..MaxLogs
\* the TTL of alert hashes, in ticks of the clock
ALERTS_TTL_SEC == 2

\* The faults one message's processing can meet (at most one per message):
\* the call that raises.  A fault is taken only when the call is made.
Faults ==
    { "none", "parse", "lookup", "add", "assign", "meta", "key",
      "incr", "get", "setex", "xadd" }

VARIABLES
    \* Redis: the logs stream and its consumer group issues_aggregator
    logs, groupExists, lastDelivered, pel,
    \* Redis: counters, rate limiter keys and the output streams
    count, lastTs, candidates, issuesStream,
    \* vector store: prototypes and the cluster_id metadata of logged documents
    protos, logMeta,
    \* aggregator worker: position, local variables, the _issues map, supervisor
    pc, batch, ackIds, now, issues, backoff, nextId,
    \* settings read by the aggregator
    repubEvery, minInterval,
    \* wall clock
    clock,
    \* history: per message deliveries, appends to an Issue, counter increments,
    \* ids passed to XACK, the call that raised while a message was processed
    delivered, appended, incremented, xackArgs, errorOf,
    \* history: for each record of issues:candidates, the Issue as the sweep
    \* read it and the time of the emission
    closedAt,
    \* failing calls injected so far
    faults,
    \* Redis: the consumer group clusters_enrichers of clusters:candidates
    egroupExists, elastDelivered, epel,
    \* enricher worker: position, the messages of the response still to
    \* process, the message being processed
    epc, ebatch, ecur,
    \* Redis: the alerts stream, the alert:<id> hashes, the persisted set and
    \* the two feedback sets
    alerts, hash, persistedSet, correctSet, incorrectSet,
    \* the requests the alert endpoints are serving, and how many were made
    reqs, nreq,
    \* the last direct call of assign_or_create_cluster: its arguments, the
    \* collection before it and what it returned
    lastCall,
    \* the alerts the listing reads, and the last call of list_alerts: its
    \* arguments and what it returned
    listStore, lastList,
    \* the environment toggles of the correlation endpoints, their cache
    \* (_CACHE), the last request served and the number of requests made
    toggles, cache, lastCorr, ncorr,
    \* the clusters of the environment, the cache of the env correlation
    \* (_CORR_CACHE), the last request served and the number of requests
    envClusters, envCache, lastEnv, nenv,
    \* the inputs of one run of the enricher's loop body, and what it did
    bodyIn, lastBody,
    \* the supervisors of the two workers: where each is, its backoff and the
    \* delays it slept so far
    sup,
    \* the API process's wall clock, its three correlation caches, the last
    \* request handled with them, the requests handled, and SIM_ENV_IDS
    wall, ttlCache, lastReq, nttl, fallbackIds,
    \* history: ids the enricher passed to XACK, how the body ended for each
    \* candidate, the candidates this run of the worker processed, restarts
    exackArgs, ebody, erun, erestarts

aggVars ==
    << logs, groupExists, lastDelivered, pel, count, lastTs, candidates,
       issuesStream, closedAt, protos, logMeta, pc, batch, ackIds, now, issues, backoff,
       nextId, repubEvery, minInterval, clock, delivered, appended,
       incremented, xackArgs, errorOf, faults >>

\* groups of variables, for the frame conditions
grpVars == << groupExists, lastDelivered, pel >>
outVars == << count, lastTs, candidates >>
chromaVars == << protos, logMeta, nextId >>
loopVars == << batch, ackIds, now >>
cfgVars == << repubEvery, minInterval >>
histVars == << delivered, appended, incremented, xackArgs, errorOf >>

enrVars ==
    << egroupExists, elastDelivered, epel, epc, ebatch, ecur, exackArgs, ebody,
       erun, erestarts >>

storeVars == << alerts, hash, persistedSet, correctSet, incorrectSet, reqs, nreq >>

cluVars == << lastCall >>

listVars == << listStore, lastList >>

corrVars == << toggles, cache, lastCorr, ncorr >>

ecorrVars == << envClusters, envCache, lastEnv, nenv >>

bodyVars == << bodyIn, lastBody >>

supVars == << sup >>

\* the harnesses added last
ttlVars == << wall, ttlCache, lastReq, nttl, fallbackIds >>

lateVars == << bodyVars, supVars, ttlVars >>

apiVars == << listVars, corrVars, ecorrVars, lateVars >>

\* what the aggregator's steps leave alone
nonAggVars == << enrVars, storeVars, cluVars, apiVars >>

vars == << aggVars, enrVars, storeVars, cluVars, apiVars >>

(***************************************************************************)
(* Helpers                                                                 *)
(***************************************************************************)
Min(a, b) == IF a <= b THEN a ELSE b

Dist(a, b) == IF a >= b THEN a - b ELSE b - a

SeqToSet(s) == { s[i] : i \in 1..Len(s) }

RECURSIVE SubSeqWhere(_, _)
\* the elements of s whose index is in keep, in order
SubSeqWhere(s, keep) ==
    IF s = << >> THEN << >>
    ELSE LET n == Len(s)
             front == SubSeqWhere(SubSeq(s, 1, n - 1), keep)
         IN IF n \in keep THEN Append(front, s[n]) ELSE front

(***************************************************************************)
(* Online clusterer                                                        *)
(***************************************************************************)
\* nearest_prototype(os, text, k=1): the k=1 ANN query over the os prototype
\* collection; the empty sequence when the collection is empty.
nearest_prototype(P, os, text) ==
    LET own == { p \in P : p.os = os }
    IN IF own = {} THEN << >>
       ELSE LET best == CHOOSE p \in own :
                           \A q \in own :
                               \/ Dist(p.text, text) < Dist(q.text, text)
                               \/ /\ Dist(p.text, text) = Dist(q.text, text)
                                  /\ p.id <= q.id
            IN << [id |-> best.id, distance |-> Dist(best.text, text)] >>

\* thresh = threshold if threshold is not None else the setting.
\* threshold is << >> for None and << v >> for a given value.
EffectiveThreshold(threshold) ==
    IF threshold # << >> THEN threshold[1] ELSE ONLINE_CLUSTER_DISTANCE_THRESHOLD

\* (a comparison that leaves the boundary out)
WithinThreshold_strict(dist, thresh) == dist < thresh

\* if isinstance(dist, (int, float)) and dist <= thresh and cid
WithinThreshold(dist, thresh) == dist <= thresh

\* (a lookup whose failure reaches the caller)
Propagates_lookup(fault) == fault = "lookup"

\* whether a failing call inside assign_or_create_cluster raises to the
\* caller: the lookup (61-65), the persisting of the prototype (91-138)
\* and the metrics recording (153-202) each run inside try/except Exception
Propagates(fault) == FALSE

\* assign_or_create_cluster(os_name, templated, threshold=...).
\* fault "lookup": nearest_prototype raises, treated as no result;
\* fault "add": collection.add raises, the generated id is still returned;
\* fault "metrics": _record_online_metrics fails.
\* fresh is the id uuid4 generates.  Result: the cluster id, the prototype
\* collection afterwards and whether a new id was generated.
assign_or_create_cluster(P, os, text, threshold, fault, fresh) ==
    LET thresh == EffectiveThreshold(threshold)
        nearest == IF fault = "lookup" THEN << >> ELSE nearest_prototype(P, os, text)
    IN IF /\ nearest # << >>
          /\ WithinThreshold(nearest[1].distance, thresh)
          /\ nearest[1].id # NoCluster
       THEN [cid |-> IF Propagates(fault) THEN NoCluster ELSE nearest[1].id,
             protos |-> P, created |-> FALSE, raised |-> Propagates(fault)]
       ELSE [cid |-> IF Propagates(fault) THEN NoCluster ELSE fresh,
             protos |-> IF fault = "add" THEN P
                        ELSE P \cup { [id |-> fresh, os |-> os, text |-> text,
                                       label |-> "unknown", rationale |-> "online",
                                       size |-> 1, created_by |-> "online",
                                       solution |-> NoSolution] },
             created |-> TRUE, raised |-> Propagates(fault)]

(***************************************************************************)
(* Issues aggregator                                                       *)
(***************************************************************************)
\* _issue_key(os_name, parsed): "{os}|{component}|{pid or nopid}"
issue_key(os, component) == << os, component, "nopid" >>

\* index of the Issue with this key in the _issues map, 0 when absent
IssueIndex(iss, key) ==
    IF \E i \in 1..Len(iss) : iss[i].key = key
    THEN CHOOSE i \in 1..Len(iss) : iss[i].key = key
    ELSE 0

\* issue = _issues.get(key); create when None; issue.add_log(...)
AddLogToIssue(iss, os, key, id, tnow, tadd) ==
    LET i == IssueIndex(iss, key)
    IN IF i = 0
       THEN Append(iss, [os |-> os, key |-> key, created_at |-> tnow,
                         last_seen_at |-> tadd, logs |-> << id >>])
       ELSE [iss EXCEPT ![i].logs = Append(@, id), ![i].last_seen_at = tadd]

\* should_publish = new_count == min_count
ReachedThreshold(new_count, min_count) == new_count = min_count

\* (a republish condition that takes every 0 for "every hit")
RepublishDue_zero_is_always(new_count, min_count, repub_every) ==
    /\ new_count > min_count
    /\ IF repub_every > 0 THEN new_count % repub_every = 0 ELSE TRUE

\* (a republish condition that counts the hits from the threshold)
RepublishDue_from_threshold(new_count, min_count, repub_every) ==
    /\ repub_every > 0
    /\ new_count > min_count
    /\ (new_count - min_count) % repub_every = 0

\* repub_every > 0 and new_count > min_count and new_count % repub_every == 0
RepublishDue(new_count, min_count, repub_every) ==
    /\ repub_every > 0
    /\ new_count > min_count
    /\ new_count % repub_every = 0

\* The counter/candidate step of one message (lines 306-344), all inside one
\* try/except that swallows every error.  Result: the counter, the rate
\* limiter keys and the candidates stream afterwards, whether the counter
\* was incremented, and which Redis calls the step made.
CandidateStep(os, cid, id, fault, tnow) ==
    IF cid = NoCluster \/ fault = "incr"
    THEN [count |-> count, lastTs |-> lastTs, candidates |-> candidates,
          incr |-> FALSE,
          calls |-> IF cid = NoCluster THEN {} ELSE {"incr"}]
    ELSE
      LET new_count == count[cid] + 1
          min_count == CLUSTER_MIN_LOGS_FOR_CLASSIFICATION
          first == ReachedThreshold(new_count, min_count)
          due == (~first) /\ RepublishDue(new_count, min_count, repubEvery)
          last_ts == IF fault = "get" THEN EpochTs ELSE lastTs[cid]
          gate == due /\ (tnow - last_ts) >= minInterval
          should_publish == first \/ gate
          entry == [os |-> os, cluster_id |-> cid, sample |-> id,
                    count |-> new_count, ts |-> tnow]
      IN [count |-> [count EXCEPT ![cid] = new_count],
          lastTs |-> IF gate /\ fault # "setex"
                     THEN [lastTs EXCEPT ![cid] = tnow] ELSE lastTs,
          candidates |-> IF should_publish /\ fault # "xadd"
                         THEN Append(candidates, entry) ELSE candidates,
          incr |-> TRUE,
          calls |-> {"incr"} \cup (IF due THEN {"get"} ELSE {})
                             \cup (IF gate THEN {"setex"} ELSE {})
                             \cup (IF should_publish THEN {"xadd"} ELSE {})]

\* producers append a LogEvent to the logs stream.  The aggregator observes
\* the stream only in XGROUP CREATE and XREADGROUP, so appends are taken at
\* those two points of the worker.
Produce(k) ==
    /\ Len(logs) < MaxLogs
    /\ pc \in {"create", "read"}
    /\ logs' = Append(logs, k)
    /\ UNCHANGED nonAggVars
    /\ UNCHANGED << grpVars, outVars, issuesStream, closedAt, chromaVars, pc, loopVars,
                    issues, backoff, cfgVars, clock, histVars, faults >>

\* the wall clock advances.  The aggregator reads the clock after XREADGROUP
\* (now) and in add_log (last_seen_at).
Tick ==
    /\ clock < MaxClock
    /\ pc \in {"read", "proc"}
    /\ clock' = clock + 1
    /\ UNCHANGED nonAggVars
    /\ UNCHANGED << logs, grpVars, outVars, issuesStream, closedAt, chromaVars, pc,
                    loopVars, issues, backoff, cfgVars, histVars, faults >>

\* a call may fail only while the run's budget of failures lasts
MayFail(ok) == ok \/ faults < MaxFaults

Charge(ok) == IF ok THEN faults ELSE faults + 1

\* redis.xgroup_create(stream, group, id="$", mkstream=True); any error
\* (BUSYGROUP when the group exists, Redis unreachable) is logged and ignored
Agg_xgroup_create(ok) ==
    /\ pc = "create"
    /\ MayFail(ok)
    /\ faults' = Charge(ok)
    /\ IF ok /\ ~groupExists
       THEN /\ groupExists' = TRUE
            /\ lastDelivered' = Len(logs)
       ELSE UNCHANGED << groupExists, lastDelivered >>
    /\ pc' = "read"
    /\ UNCHANGED nonAggVars
    /\ UNCHANGED << logs, pel, outVars, issuesStream, closedAt, chromaVars, loopVars,
                    issues, backoff, cfgVars, clock, histVars >>

\* the ids XREADGROUP ">" delivers: the entries after the group's
\* last-delivered id, at most count of them
NewIds(last, len, cnt) ==
    [i \in 1..(Min(len, last + cnt) - last) |-> last + i]

\* response = redis.xreadgroup(group, consumer, {stream: ">"}, count, block);
\* on an error (Redis unreachable, NOGROUP): sleep(1) and continue.
\* now = time.time()
Agg_xreadgroup(ok) ==
    /\ pc = "read"
    /\ IF ok /\ groupExists
       THEN LET ids == NewIds(lastDelivered, Len(logs), BatchCount)
            IN /\ batch' = ids
               /\ lastDelivered' = lastDelivered + Len(ids)
               /\ pel' = pel \cup SeqToSet(ids)
               /\ delivered' = [m \in MsgIds |->
                                   IF m \in SeqToSet(ids) THEN delivered[m] + 1
                                   ELSE delivered[m]]
               /\ ackIds' = << >>
               /\ now' = clock
               /\ pc' = IF ids = << >> THEN "sweep" ELSE "proc"
       ELSE UNCHANGED << batch, lastDelivered, pel, delivered, ackIds, now, pc >>
    /\ UNCHANGED nonAggVars
    /\ UNCHANGED << logs, groupExists, outVars, issuesStream, closedAt, chromaVars,
                    issues, backoff, cfgVars, clock, appended, incremented,
                    xackArgs, errorOf, faults >>

\* processed_ok: True unless an exception reaches the outer except of the
\* message body.  Cluster assignment, the metadata update and the counter /
\* candidate step each sit in an inner try whose except swallows the error.
processed_ok(fault) == fault \notin {"parse", "key"}

\* (a finally that acks whatever happened)
AckIdsAfter_always(ids, id, ok) == Append(ids, id)

\* finally: if processed_ok: ack_ids.append(msg_id)
AckIdsAfter(ids, id, ok) == IF ok THEN Append(ids, id) ELSE ids

\* the body of the loop over the messages of the response, for one message
\* (lines 267-350)
Agg_process_message(fault) ==
    /\ pc = "proc"
    /\ batch # << >>
    /\ MayFail(fault = "none")
    /\ faults' = Charge(fault = "none")
    /\ LET id == Head(batch)
           data == logs[id]
           os == data.os
           rest == Tail(batch)
           res == IF fault = "assign"
                  THEN [cid |-> NoCluster, protos |-> protos, created |-> FALSE]
                  ELSE assign_or_create_cluster(protos, os, data.text, << >>,
                                                fault, nextId)
           cid == res.cid
           cs == CandidateStep(os, cid, id, fault, now)
       IN /\ fault = "add" => res.created
          /\ fault \in {"incr", "get", "setex", "xadd"} => fault \in cs.calls
          /\ batch' = rest
          /\ pc' = IF rest = << >> THEN "ack" ELSE "proc"
          /\ errorOf' = [errorOf EXCEPT ![id] = fault]
          /\ ackIds' = AckIdsAfter(ackIds, id, processed_ok(fault))
          /\ IF fault = "parse"
             THEN \* normalisation or parsing raised before any effect
                  UNCHANGED << chromaVars, issues, appended, outVars, incremented >>
             ELSE /\ protos' = res.protos
                  /\ nextId' = IF res.created THEN nextId + 1 ELSE nextId
                  /\ logMeta' = IF fault = "meta" THEN logMeta
                                ELSE [logMeta EXCEPT ![id] = cid]
                  /\ IF fault = "key"
                     THEN \* _issue_key or add_log raised
                          UNCHANGED << issues, appended, outVars, incremented >>
                     ELSE /\ issues' = AddLogToIssue(issues, os,
                                           issue_key(os, data.component), id, now, clock)
                          /\ appended' = [appended EXCEPT ![id] = @ + 1]
                          /\ count' = cs.count
                          /\ lastTs' = cs.lastTs
                          /\ candidates' = cs.candidates
                          /\ incremented' = IF cs.incr
                                            THEN [incremented EXCEPT ![id] = @ + 1]
                                            ELSE incremented
    /\ UNCHANGED nonAggVars
    /\ UNCHANGED << logs, grpVars, issuesStream, closedAt, now, backoff, cfgVars, clock,
                    delivered, xackArgs >>

\* if ack_ids: redis.xack(stream, group, *ack_ids); an error is ignored
Agg_xack(ok) ==
    /\ pc = "ack"
    /\ MayFail(ok)
    /\ IF ackIds # << >>
       THEN /\ xackArgs' = xackArgs \cup SeqToSet(ackIds)
            /\ pel' = IF ok THEN pel \ SeqToSet(ackIds) ELSE pel
            /\ faults' = Charge(ok)
       ELSE /\ ok
            /\ UNCHANGED << xackArgs, pel, faults >>
    /\ pc' = "sweep"
    /\ UNCHANGED nonAggVars
    /\ UNCHANGED << logs, groupExists, lastDelivered, outVars, issuesStream, closedAt,
                    chromaVars, loopVars, issues, backoff, cfgVars, clock,
                    delivered, appended, incremented, errorOf >>

\* (idleness measured from the creation of the Issue)
IsIdle_since_creation(issue, tnow) == tnow - issue.created_at >= ISSUE_INACTIVITY_SEC

\* now - issue.last_seen_at >= inactivity
IsIdle(issue, tnow) == tnow - issue.last_seen_at >= ISSUE_INACTIVITY_SEC

\* (the last limit logs instead of the first)
top_logs_latest(issue, limit) ==
    SubSeq(issue.logs, Len(issue.logs) - Min(Len(issue.logs), limit) + 1,
           Len(issue.logs))

\* issue.top_logs(limit): keep order, cap length
top_logs(issue, limit) == SubSeq(issue.logs, 1, Min(Len(issue.logs), limit))

\* the record _close_and_publish adds to issues:candidates
IssueRecord(issue) ==
    [os |-> issue.os, issue_key |-> issue.key,
     logs |-> top_logs(issue, ISSUE_MAX_LOGS_FOR_LLM)]

\* the sweep over _issues (lines 361-367): every idle issue is published in
\* map order; the keys are popped only after the loop.  published is the
\* number of idle issues whose XADD succeeded; when it is less than the
\* number of idle issues the next XADD raised and the worker crashes.
Agg_close_idle(published) ==
    /\ pc = "sweep"
    /\ LET idle == { i \in 1..Len(issues) : IsIdle(issues[i], now) }
           idleSeq == SubSeqWhere(issues, idle)
           ok == published = Len(idleSeq)
       IN /\ published \in 0..Len(idleSeq)
          /\ Len(issuesStream) + published <= MaxIssuesOut
          /\ MayFail(ok)
          /\ faults' = Charge(ok)
          /\ issuesStream' = issuesStream \o
                 [j \in 1..published |-> IssueRecord(idleSeq[j])]
          /\ closedAt' = closedAt \o
                 [j \in 1..published |->
                     [seen |-> idleSeq[j].last_seen_at, now |-> now,
                      at |-> clock, logs |-> idleSeq[j].logs]]
          /\ IF ok
             THEN /\ issues' = SubSeqWhere(issues, (1..Len(issues)) \ idle)
                  /\ pc' = "read"
             ELSE /\ issues' = issues
                  /\ pc' = "crashed"
    /\ UNCHANGED nonAggVars
    /\ UNCHANGED << logs, grpVars, outVars, chromaVars, loopVars, backoff,
                    cfgVars, clock, histVars >>

\* (a backoff that doubles without a cap)
NextBackoff_uncapped(b) == b * 2

\* backoff = min(backoff * 2, 10)
NextBackoff(b) == Min(b * 2, BackoffCap)

\* _run_forever: except Exception: sleep(backoff); backoff = min(backoff * 2, 10)
Agg_supervisor_restart ==
    /\ pc = "crashed"
    /\ backoff' = NextBackoff(backoff)
    /\ pc' = "create"
    /\ UNCHANGED nonAggVars
    /\ UNCHANGED << logs, grpVars, outVars, issuesStream, closedAt, chromaVars, loopVars,
                    issues, cfgVars, clock, histVars, faults >>

\* the state at the start of the worker, whatever the settings
AggStateInit ==
    /\ logs = << >>
    /\ groupExists = FALSE
    /\ lastDelivered = 0
    /\ pel = {}
    /\ count = [c \in ClusterIds |-> 0]
    /\ lastTs = [c \in ClusterIds |-> EpochTs]
    /\ candidates = << >>
    /\ issuesStream = << >>
    /\ closedAt = << >>
    /\ protos = {}
    /\ logMeta = [m \in MsgIds |-> NoCluster]
    /\ pc = "create"
    /\ batch = << >>
    /\ ackIds = << >>
    /\ now = 0
    /\ issues = << >>
    /\ backoff = 1
    /\ nextId = 1
    /\ clock = 0
    /\ delivered = [m \in MsgIds |-> 0]
    /\ appended = [m \in MsgIds |-> 0]
    /\ incremented = [m \in MsgIds |-> 0]
    /\ xackArgs = {}
    /\ errorOf = [m \in MsgIds |-> "none"]
    /\ faults = 0

\* a sweep whose XADDs all succeed
Agg_close_idle_ok == \E n \in 0..MaxLogs : Agg_close_idle(n) /\ pc' = "read"

\* republishing disabled (the default of the settings)
AggInit ==
    /\ AggStateInit
    /\ repubEvery = 0
    /\ minInterval = 0

\* republishing enabled
RepubInit ==
    /\ AggStateInit
    /\ repubEvery \in 1..MaxRepubEvery
    /\ minInterval \in 0..MaxMinInterval

\* the calls of the counter and candidate step that can raise
RepubFaults == {"none", "incr", "get", "setex", "xadd"}

\* the aggregator with a Redis that fails in the counter and candidate step
\* only
NextRepub ==
    \/ \E k \in LogKinds : Produce(k)
    \/ Tick
    \/ Agg_xgroup_create(TRUE)
    \/ Agg_xreadgroup(TRUE)
    \/ \E f \in RepubFaults : Agg_process_message(f)
    \/ Agg_xack(TRUE)
    \/ Agg_close_idle_ok

NextAgg ==
    \/ \E k \in LogKinds : Produce(k)
    \/ Tick
    \/ \E ok \in BOOLEAN : Agg_xgroup_create(ok)
    \/ \E ok \in BOOLEAN : Agg_xreadgroup(ok)
    \/ \E f \in Faults : Agg_process_message(f)
    \/ \E ok \in BOOLEAN : Agg_xack(ok)
    \/ \E n \in 0..MaxLogs : Agg_close_idle(n)
    \/ Agg_supervisor_restart

(***************************************************************************)
(* Cluster enricher                                                        *)
(***************************************************************************)
AlertIds == 1..MaxCands
CandIds == 1..MaxCands
FailureTypes == {"disk_full", "network"}

\* The calls of the enricher's loop body that can fail (at most one per
\* candidate).  "neighbors_index" is the neighbor query failing with
\* "Nothing found on disk" or "hnsw segment reader" in its text.
EnrFaults ==
    { "none", "get_prototype", "neighbors_index", "neighbors_other",
      "hypothesis", "logs_collection", "logs_get", "classify", "metrics",
      "xadd", "update" }

\* the errors that reach the except of the loop body; the others are
\* swallowed where they occur
EnrRaises(fault) ==
    fault \in {"get_prototype", "neighbors_other", "hypothesis",
               "logs_collection", "classify", "xadd"}

\* the aggregator appends a ClusterCandidate for a cluster it created; the
\* prototype of the cluster exists unless persisting it had failed
Agg_emits_candidate(cid, withProto) ==
    /\ Len(candidates) < MaxCands
    /\ candidates' = Append(candidates,
           [os |-> "linux", cluster_id |-> cid, sample |-> cid,
            count |-> CLUSTER_MIN_LOGS_FOR_CLASSIFICATION])
    /\ protos' = IF withProto /\ ~ \E q \in protos : q.id = cid
                 THEN protos \cup { [id |-> cid, os |-> "linux", text |-> cid,
                                     label |-> "unknown", rationale |-> "online",
                                       size |-> 1, created_by |-> "online",
                                       solution |-> NoSolution] }
                 ELSE protos
    /\ UNCHANGED << logs, grpVars, count, lastTs, issuesStream, closedAt, logMeta, nextId,
                    pc, loopVars, issues, backoff, cfgVars, clock, histVars,
                    faults, enrVars, storeVars, cluVars, apiVars >>

\* redis.xgroup_create(CLUSTERS_CANDIDATES_STREAM, group, id="$", mkstream=True)
\* with every error ignored
Enr_xgroup_create(ok) ==
    /\ epc = "create"
    /\ MayFail(ok)
    /\ faults' = Charge(ok)
    /\ IF ok /\ ~egroupExists
       THEN /\ egroupExists' = TRUE
            /\ elastDelivered' = Len(candidates)
       ELSE UNCHANGED << egroupExists, elastDelivered >>
    /\ epc' = "read"
    /\ UNCHANGED << epel, ebatch, ecur, exackArgs, ebody, erun, erestarts,
                    storeVars >>
    /\ UNCHANGED << logs, grpVars, outVars, issuesStream, closedAt, chromaVars, pc,
                    loopVars, issues, backoff, cfgVars, clock, histVars,
                    cluVars, apiVars >>

\* (a reader that asks for the pending entries again instead of ">")
EnrDelivers_pending(last, len, cnt) == NewIds(0, len, cnt)

\* the ids XREADGROUP ">" delivers to the enricher
EnrDelivers(last, len, cnt) == NewIds(last, len, cnt)

\* response = redis.xreadgroup(group, consumer, {stream: ">"}, count=5, block);
\* on an error sleep(1) and continue; if not response: continue
Enr_xreadgroup(ok) ==
    /\ epc = "read"
    /\ IF ok /\ egroupExists
       THEN LET ids == EnrDelivers(elastDelivered, Len(candidates), EnrBatchCount)
            IN /\ ebatch' = ids
               /\ elastDelivered' = IF ids = << >> THEN elastDelivered
                                    ELSE ids[Len(ids)]
               /\ epel' = epel \cup SeqToSet(ids)
               /\ epc' = IF ids = << >> THEN "read" ELSE "proc"
       ELSE UNCHANGED << ebatch, elastDelivered, epel, epc >>
    /\ UNCHANGED << egroupExists, ecur, exackArgs, ebody, erun, erestarts,
                    storeVars, aggVars, cluVars, apiVars >>

\* the prototype _get_prototype finds for the candidate, << >> when the
\* collection has no such id
get_prototype(P, os, cid) ==
    IF \E q \in P : q.id = cid /\ q.os = os
    THEN << CHOOSE q \in P : q.id = cid /\ q.os = os >>
    ELSE << >>

\* result.get("recommendation") of the classification with that failure
\* type: the LLM returns a recommendation with some results only
Recommendation(ftype) == IF ftype = "network" THEN "restart" ELSE NoSolution

\* (an update that writes the label and leaves the rationale)
update_prototype_label_only(P, os, cid, ftype) ==
    { IF q.id = cid /\ q.os = os THEN [q EXCEPT !.label = ftype] ELSE q : q \in P }

\* pcoll.update(ids=[cluster_id], metadatas=[meta]) with label = failure_type,
\* rationale = "llm_cluster" and, when the result has a recommendation,
\* solution = recommendation; nothing changes when the id is unknown
update_prototype(P, os, cid, ftype) ==
    { IF q.id = cid /\ q.os = os
      THEN [q EXCEPT !.label = ftype, !.rationale = "llm_cluster",
                     !.solution = IF Recommendation(ftype) # NoSolution
                                  THEN Recommendation(ftype) ELSE @]
      ELSE q : q \in P }

\* (a metadata update that does not depend on the publish)
UpdatesPrototype_always(raised, fault) == fault # "update"

\* the metadata update is reached when nothing raised before it (the XADD of
\* the alert included) and it takes effect unless pcoll.update raises
UpdatesPrototype(raised, fault) == ~raised /\ fault # "update"

\* where the worker goes after the finally block
AfterAck(rest) == IF rest = << >> THEN "read" ELSE "proc"

\* (an XACK placed at the end of the try block instead of in finally)
AfterBody_ack_on_success(raised, rest) == IF raised THEN AfterAck(rest) ELSE "ack"

\* where the worker goes after the try/except of the body: the finally
\* block, whatever happened
AfterBody(raised, rest) == "ack"

\* the try block of the loop body for one candidate (lines 136-297)
Enr_process_candidate(fault, ftype) ==
    /\ epc = "proc"
    /\ ebatch # << >>
    /\ MayFail(fault = "none")
    /\ faults' = Charge(fault = "none")
    /\ LET id == Head(ebatch)
           data == candidates[id]
           proto == get_prototype(protos, data.os, data.cluster_id)
           raised == EnrRaises(fault)
           entry == [cand |-> id, type |-> "cluster", os |-> data.os,
                     cluster_id |-> data.cluster_id, failure_type |-> ftype]
       IN /\ fault \in {"neighbors_index", "neighbors_other"} => proto # << >>
          /\ alerts' = IF raised THEN alerts ELSE Append(alerts, entry)
          /\ protos' = IF UpdatesPrototype(raised, fault)
                       THEN update_prototype(protos, data.os, data.cluster_id, ftype)
                       ELSE protos
          /\ ebody' = [ebody EXCEPT ![id] = IF raised THEN "raised" ELSE "ok"]
          /\ erun' = erun \cup {id}
          /\ ecur' = id
          /\ ebatch' = Tail(ebatch)
          /\ epc' = AfterBody(raised, Tail(ebatch))
    /\ UNCHANGED << egroupExists, elastDelivered, epel, exackArgs, erestarts,
                    hash, persistedSet, correctSet, incorrectSet, reqs, nreq >>
    /\ UNCHANGED << logs, grpVars, outVars, issuesStream, closedAt, logMeta, nextId, pc,
                    loopVars, issues, backoff, cfgVars, clock, histVars,
                    cluVars, apiVars >>

\* finally: redis.xack(CLUSTERS_CANDIDATES_STREAM, group, msg_id), an error
\* of which is ignored
Enr_xack(ok) ==
    /\ epc = "ack"
    /\ MayFail(ok)
    /\ faults' = Charge(ok)
    /\ exackArgs' = exackArgs \cup {ecur}
    /\ epel' = IF ok THEN epel \ {ecur} ELSE epel
    /\ epc' = AfterAck(ebatch)
    /\ UNCHANGED << egroupExists, elastDelivered, ebatch, ecur, ebody, erun,
                    erestarts, storeVars >>
    /\ UNCHANGED << logs, grpVars, outVars, issuesStream, closedAt, chromaVars, pc,
                    loopVars, issues, backoff, cfgVars, clock, histVars,
                    cluVars, apiVars >>

\* the application is shut down (shutdown_event stops the worker's loop
\* wherever it is) and started again (startup_event): the worker's local
\* state is gone, Redis and the vector store keep theirs
Enr_restart ==
    /\ erestarts < MaxRestarts
    /\ erestarts' = erestarts + 1
    /\ epc' = "create"
    /\ ebatch' = << >>
    /\ ecur' = 0
    /\ erun' = {}
    /\ UNCHANGED << egroupExists, elastDelivered, epel, exackArgs, ebody,
                    storeVars, aggVars, cluVars, apiVars >>

EnrInit ==
    /\ egroupExists = FALSE
    /\ elastDelivered = 0
    /\ epel = {}
    /\ epc = "create"
    /\ ebatch = << >>
    /\ ecur = 0
    /\ exackArgs = {}
    /\ ebody = [c \in CandIds |-> "none"]
    /\ erun = {}
    /\ erestarts = 0

(***************************************************************************)
(* Alert store: persist_alert and add_feedback                             *)
(***************************************************************************)
ReqIds == 1..2        \* request handlers running concurrently
FeedbackKinds == {"correct", "incorrect"}

\* a key that does not exist (TTL answers -2 for it)
NoHash == [exists |-> FALSE, ttl |-> -2, feedback |-> "none"]

IdleReq == [op |-> "idle", id |-> 0, kind |-> "none", pc |-> "idle", status |-> 0]

\* HSET key ...: creates the key, without expiry, when it does not exist and
\* leaves the expiry of an existing key alone
HSet(h) == IF h.exists THEN h ELSE [exists |-> TRUE, ttl |-> -1, feedback |-> "none"]

\* PERSIST key: removes the expiry of an existing key
Persist(h) == IF h.exists THEN [h EXCEPT !.ttl = -1] ELSE h

\* the enricher appends an alert to the alerts stream
Alert_xadd(ftype) ==
    /\ Len(alerts) < MaxAlerts
    /\ alerts' = Append(alerts,
           [cand |-> Len(alerts) + 1, type |-> "cluster", os |-> "linux",
            cluster_id |-> 1, failure_type |-> ftype])
    /\ UNCHANGED << hash, persistedSet, correctSet, incorrectSet, reqs, nreq,
                    aggVars, enrVars, cluVars, apiVars >>

\* the hash alert:<entry_id> of a published alert is stored with
\* TTL = ALERTS_TTL_SEC
Store_alert_hash(id) ==
    /\ id \in 1..Len(alerts)
    /\ ~hash[id].exists
    /\ id \notin persistedSet
    /\ hash' = [hash EXCEPT ![id] =
                   [exists |-> TRUE, ttl |-> ALERTS_TTL_SEC, feedback |-> "none"]]
    /\ UNCHANGED << alerts, persistedSet, correctSet, incorrectSet, reqs, nreq,
                    aggVars, enrVars, cluVars, apiVars >>

\* a second passes: every expiry comes a second closer and a key whose
\* expiry is reached is deleted
Store_tick ==
    /\ \E a \in AlertIds : hash[a].ttl > 0
    /\ hash' = [a \in AlertIds |->
                   IF hash[a].ttl > 1 THEN [hash[a] EXCEPT !.ttl = @ - 1]
                   ELSE IF hash[a].ttl = 1 THEN NoHash
                   ELSE hash[a]]
    /\ UNCHANGED << alerts, persistedSet, correctSet, incorrectSet, reqs, nreq,
                    aggVars, enrVars, cluVars, apiVars >>

\* POST /alerts/{entry_id}/persist arrives
Persist_start(r, id) ==
    /\ reqs[r].pc = "idle"
    /\ nreq < MaxRequests
    /\ nreq' = nreq + 1
    /\ reqs' = [reqs EXCEPT ![r] =
                   [op |-> "persist", id |-> id, kind |-> "none",
                    pc |-> "exists", status |-> 0]]
    /\ UNCHANGED << alerts, hash, persistedSet, correctSet, incorrectSet,
                    aggVars, enrVars, cluVars, apiVars >>

\* exists = await redis.exists(key)
Persist_exists(r) ==
    /\ reqs[r].op = "persist"
    /\ reqs[r].pc = "exists"
    /\ reqs' = [reqs EXCEPT ![r].pc =
                   IF hash[reqs[r].id].exists THEN "persist" ELSE "rebuild"]
    /\ UNCHANGED << alerts, hash, persistedSet, correctSet, incorrectSet, nreq,
                    aggVars, enrVars, cluVars, apiVars >>

\* entries = await redis.xrange(stream, min=id, max=id, count=1); 404 when
\* there is none, else redis.hset(key, mapping={**fields, "id": entry_id})
Persist_rebuild(r) ==
    /\ reqs[r].op = "persist"
    /\ reqs[r].pc = "rebuild"
    /\ LET id == reqs[r].id
       IN IF id \in 1..Len(alerts)
          THEN /\ hash' = [hash EXCEPT ![id] = HSet(@)]
               /\ reqs' = [reqs EXCEPT ![r].pc = "persist"]
          ELSE /\ reqs' = [reqs EXCEPT ![r].pc = "done", ![r].status = 404]
               /\ UNCHANGED hash
    /\ UNCHANGED << alerts, persistedSet, correctSet, incorrectSet, nreq,
                    aggVars, enrVars, cluVars, apiVars >>

\* await redis.persist(key)
Persist_persist(r) ==
    /\ reqs[r].op = "persist"
    /\ reqs[r].pc = "persist"
    /\ hash' = [hash EXCEPT ![reqs[r].id] = Persist(@)]
    /\ reqs' = [reqs EXCEPT ![r].pc = "sadd"]
    /\ UNCHANGED << alerts, persistedSet, correctSet, incorrectSet, nreq,
                    aggVars, enrVars, cluVars, apiVars >>

\* await redis.sadd(ALERTS_PERSISTED_SET, entry_id); return ok
Persist_sadd(r) ==
    /\ reqs[r].op = "persist"
    /\ reqs[r].pc = "sadd"
    /\ persistedSet' = persistedSet \cup {reqs[r].id}
    /\ reqs' = [reqs EXCEPT ![r].pc = "done", ![r].status = 200]
    /\ UNCHANGED << alerts, hash, correctSet, incorrectSet, nreq,
                    aggVars, enrVars, cluVars, apiVars >>

\* POST /alerts/{entry_id}/feedback?feedback=kind arrives
Feedback_start(r, id, kind) ==
    /\ reqs[r].pc = "idle"
    /\ nreq < MaxRequests
    /\ nreq' = nreq + 1
    /\ reqs' = [reqs EXCEPT ![r] =
                   [op |-> "feedback", id |-> id, kind |-> kind,
                    pc |-> "exists", status |-> 0]]
    /\ UNCHANGED << alerts, hash, persistedSet, correctSet, incorrectSet,
                    aggVars, enrVars, cluVars, apiVars >>

\* exists = await redis.exists(key); 404 when it does not
Feedback_exists(r) ==
    /\ reqs[r].op = "feedback"
    /\ reqs[r].pc = "exists"
    /\ reqs' = IF hash[reqs[r].id].exists
               THEN [reqs EXCEPT ![r].pc = "exec"]
               ELSE [reqs EXCEPT ![r].pc = "done", ![r].status = 404]
    /\ UNCHANGED << alerts, hash, persistedSet, correctSet, incorrectSet, nreq,
                    aggVars, enrVars, cluVars, apiVars >>

\* (a pipeline that adds to the new set and forgets to remove from the other)
FeedbackSets_no_srem(correct, incorrect, id, kind) ==
    IF kind = "correct"
    THEN [correct |-> correct \cup {id}, incorrect |-> incorrect]
    ELSE [correct |-> correct, incorrect |-> incorrect \cup {id}]

\* (a pipeline that keeps the first feedback an id got)
FeedbackSets_first_wins(correct, incorrect, id, kind) ==
    IF id \in correct \cup incorrect
    THEN [correct |-> correct, incorrect |-> incorrect]
    ELSE IF kind = "correct"
         THEN [correct |-> correct \cup {id}, incorrect |-> incorrect]
         ELSE [correct |-> correct, incorrect |-> incorrect \cup {id}]

\* the SADD and SREM of the pipeline: the id goes into the set of the given
\* kind and out of the other one
FeedbackSets(correct, incorrect, id, kind) ==
    IF kind = "correct"
    THEN [correct |-> correct \cup {id}, incorrect |-> incorrect \ {id}]
    ELSE [correct |-> correct \ {id}, incorrect |-> incorrect \cup {id}]

\* pipe = redis.pipeline(); hset; sadd; srem; await pipe.execute(): a
\* transaction (MULTI/EXEC), so the three commands take effect in one step
Feedback_exec(r) ==
    /\ reqs[r].op = "feedback"
    /\ reqs[r].pc = "exec"
    /\ LET id == reqs[r].id
           kind == reqs[r].kind
           sets == FeedbackSets(correctSet, incorrectSet, id, kind)
       IN /\ hash' = [hash EXCEPT ![id] = [HSet(@) EXCEPT !.feedback = kind]]
          /\ correctSet' = sets.correct
          /\ incorrectSet' = sets.incorrect
    /\ reqs' = [reqs EXCEPT ![r].pc = "done", ![r].status = 200]
    /\ UNCHANGED << alerts, persistedSet, nreq, aggVars, enrVars, cluVars, apiVars >>

\* the response is sent and the handler is free again
Req_return(r) ==
    /\ reqs[r].pc = "done"
    /\ reqs' = [reqs EXCEPT ![r] = IdleReq]
    /\ UNCHANGED << alerts, hash, persistedSet, correctSet, incorrectSet, nreq,
                    aggVars, enrVars, cluVars, apiVars >>

StoreInit ==
    /\ alerts = << >>
    /\ hash = [a \in AlertIds |-> NoHash]
    /\ persistedSet = {}
    /\ correctSet = {}
    /\ incorrectSet = {}
    /\ reqs = [r \in ReqIds |-> IdleReq]
    /\ nreq = 0

NextAlerts ==
    \/ \E t \in FailureTypes : Alert_xadd(t)
    \/ \E a \in AlertIds : Store_alert_hash(a)
    \/ Store_tick
    \/ \E r \in ReqIds, a \in 1..MaxAlerts : Persist_start(r, a)
    \/ \E r \in ReqIds : Persist_exists(r)
    \/ \E r \in ReqIds : Persist_rebuild(r)
    \/ \E r \in ReqIds : Persist_persist(r)
    \/ \E r \in ReqIds : Persist_sadd(r)
    \/ \E r \in ReqIds, a \in 1..MaxAlerts, k \in FeedbackKinds :
           Feedback_start(r, a, k)
    \/ \E r \in ReqIds : Feedback_exists(r)
    \/ \E r \in ReqIds : Feedback_exec(r)
    \/ \E r \in ReqIds : Req_return(r)

NextEnr ==
    \/ \E c \in CandIds, wp \in BOOLEAN : Agg_emits_candidate(c, wp)
    \/ \E ok \in BOOLEAN : Enr_xgroup_create(ok)
    \/ \E ok \in BOOLEAN : Enr_xreadgroup(ok)
    \/ \E f \in EnrFaults, t \in FailureTypes : Enr_process_candidate(f, t)
    \/ \E ok \in BOOLEAN : Enr_xack(ok)
    \/ Enr_restart

(***************************************************************************)
(* Direct calls of the online clusterer                                    *)
(***************************************************************************)
OsNames == {"linux", "macos"}
Texts == 0..MaxText
Thresholds == { << >> } \cup { << t >> : t \in 0..MaxThreshold }

\* the calls inside assign_or_create_cluster that can fail
CluFaults == {"none", "lookup", "add", "metrics"}

NoCall ==
    [called |-> FALSE, os |-> "linux", text |-> 0, threshold |-> << >>,
     fault |-> "none", before |-> {}, cid |-> NoCluster, raised |-> FALSE,
     fresh |-> NoCluster]

\* cid = assign_or_create_cluster(os, text, threshold); fault is the call
\* inside it that raises, if any
Clu_call(os, text, threshold, fault) ==
    /\ nextId <= MaxProtos
    /\ LET r == assign_or_create_cluster(protos, os, text, threshold, fault, nextId)
       IN /\ protos' = r.protos
          /\ nextId' = IF r.created THEN nextId + 1 ELSE nextId
          /\ lastCall' = [called |-> TRUE, os |-> os, text |-> text,
                          threshold |-> threshold, fault |-> fault,
                          before |-> protos, cid |-> r.cid,
                          raised |-> r.raised, fresh |-> nextId]
    /\ UNCHANGED << logs, grpVars, outVars, issuesStream, closedAt, logMeta, pc, loopVars,
                    issues, backoff, cfgVars, clock, histVars, faults,
                    enrVars, storeVars, apiVars >>

CluInit == lastCall = NoCall

NextClu ==
    \E os \in OsNames, text \in Texts, th \in Thresholds,
       fault \in CluFaults :
        Clu_call(os, text, th, fault)

(***************************************************************************)
(* Alert listing: list_alerts                                              *)
(***************************************************************************)
\* Stream ids are <ms>-<seq>.  The pool has two ids of one millisecond whose
\* sequence numbers have one and two digits, and one id per later
\* millisecond.
SeqValues == {9, 10}
StreamIdPool ==
    { [ms |-> 1, seq |-> s] : s \in SeqValues }
        \cup { [ms |-> m, seq |-> 0] : m \in 2..MaxMs }

EnvNames == {"e1", "e2"}
\* the env_ids an alert carries: one environment, or two
EnvIdLists == { << "e1" >>, << "e1", "e2" >> }
NoEnv == "none"        \* env_id not given / None

RECURSIVE Digits(_)
\* str(n) as the sequence of its character codes
Digits(n) == IF n < 10 THEN << 48 + n >> ELSE Append(Digits(n \div 10), 48 + (n % 10))

\* the id as the string Redis returns: "<ms>-<seq>"
IdString(id) == Digits(id.ms) \o << 45 >> \o Digits(id.seq)

RECURSIVE StrLess(_, _)
\* a < b for Python strings: lexicographic by character code
StrLess(a, b) ==
    IF b = << >> THEN FALSE
    ELSE IF a = << >> THEN TRUE
    ELSE IF Head(a) # Head(b) THEN Head(a) < Head(b)
    ELSE StrLess(Tail(a), Tail(b))

\* the order of the stream: by millisecond time, then by sequence number
TimeLess(a, b) == a.ms < b.ms \/ (a.ms = b.ms /\ a.seq < b.seq)

RECURSIVE NewestFirst(_)
\* the ids of a set, the latest first
NewestFirst(ids) ==
    IF ids = {} THEN << >>
    ELSE LET top == CHOOSE i \in ids : \A j \in ids \ {i} : TimeLess(j, i)
         IN << top >> \o NewestFirst(ids \ {top})

RECURSIVE SortedReverse(_)
\* sorted(ids, reverse=True) and out.sort(key=id, reverse=True): ids are
\* strings and are compared as strings
SortedReverse(ids) ==
    IF ids = {} THEN << >>
    ELSE LET top == CHOOSE i \in ids :
                        \A j \in ids \ {i} : StrLess(IdString(j), IdString(i))
         IN << top >> \o SortedReverse(ids \ {top})

Prefix(s, n) == SubSeq(s, 1, Min(n, Len(s)))

\* redis.xrevrange(ALERTS_STREAM, max="+", min="-", count=limit)
XRevRange(S, limit) ==
    Prefix(NewestFirst({ a.id : a \in { x \in S : x.in_stream } }), limit)

AlertOf(S, id) == CHOOSE a \in S : a.id = id

\* the hash alert:<id>: missing, holding every field of the alert, or
\* holding the feedback fields only
HashKinds == {"none", "full", "feedback"}

\* the fields of the stream entry of alert a
StreamFields(a) == [type |-> "cluster", env_ids |-> a.env_ids]

\* data.get("type", "") and _parse_env_ids(data.get("env_ids")) on the hash
\* of alert a
HashFields(a) ==
    IF a.hash = "full" THEN [type |-> "cluster", env_ids |-> a.env_ids]
    ELSE [type |-> "", env_ids |-> << >>]

\* if hash_data: every field is read from the hash; else from the stream
\* fields
ItemSource(a) == IF a.hash # "none" THEN HashFields(a) ELSE StreamFields(a)

\* the dict list_alerts builds for an alert
ListItem(a, persisted) ==
    LET data == ItemSource(a)
    IN [id |-> a.id, persisted |-> persisted, type |-> data.type,
        env_id |-> IF Len(data.env_ids) = 1 THEN data.env_ids[1] ELSE NoEnv,
        env_ids |-> data.env_ids]

\* env_id in (a.get("env_ids") or []) or a.get("env_id") == env_id
MatchesEnv(item, env_id) ==
    \/ env_id \in SeqToSet(item.env_ids)
    \/ item.env_id = env_id

RECURSIVE SelectSeq2(_, _)
\* the items of out that match env_id, in order
SelectSeq2(out, env_id) ==
    IF out = << >> THEN << >>
    ELSE IF MatchesEnv(Head(out), env_id)
         THEN << Head(out) >> \o SelectSeq2(Tail(out), env_id)
         ELSE SelectSeq2(Tail(out), env_id)

\* list_alerts(limit, env_id) over the store S; smembers_ok is FALSE when
\* the SMEMBERS of the persisted set raises (persisted_ids = set())
list_alerts(S, limit, env_id, smembers_ok) ==
    LET persisted_ids == IF smembers_ok THEN { a.id : a \in { x \in S : x.persisted } }
                         ELSE {}
        stream_entries == XRevRange(S, limit)
        seen_ids == SeqToSet(stream_entries)
        remaining == IF limit - Len(stream_entries) > 0
                     THEN limit - Len(stream_entries) ELSE 0
        older == SortedReverse(persisted_ids \ seen_ids)
        to_fetch == IF remaining > 0 THEN SeqToSet(Prefix(older, remaining)) ELSE {}
        fetched == { pid \in to_fetch : AlertOf(S, pid).hash # "none" }
        order == SortedReverse(seen_ids \cup fetched)
        out == [k \in 1..Len(order) |->
                   ListItem(AlertOf(S, order[k]),
                            IF order[k] \in seen_ids THEN order[k] \in persisted_ids
                            ELSE TRUE)]
        filtered == IF env_id # NoEnv THEN SelectSeq2(out, env_id) ELSE out
    IN Prefix(filtered, limit)

\* the alerts Redis holds for the listing: for each id the stream entry
\* (when it is in the stream), membership in the persisted set, what the
\* hash alert:<id> holds, and the env_ids of the alert
AlertStates ==
    [in_stream : BOOLEAN, persisted : BOOLEAN, hash : HashKinds,
     env_ids : EnvIdLists]

StoreOf(f, ids) ==
    { [id |-> i, in_stream |-> f[i].in_stream, persisted |-> f[i].persisted,
       hash |-> f[i].hash, env_ids |-> f[i].env_ids] : i \in ids }

NoList == [called |-> FALSE, limit |-> 0, env_id |-> NoEnv, smembers_ok |-> TRUE,
           out |-> << >>]

\* GET /alerts?limit=..&env_id=..
List_call(limit, env_id, smembers_ok) ==
    /\ lastList' = [called |-> TRUE, limit |-> limit, env_id |-> env_id,
                    smembers_ok |-> smembers_ok,
                    out |-> list_alerts(listStore, limit, env_id, smembers_ok)]
    /\ UNCHANGED << listStore, corrVars, ecorrVars, aggVars, enrVars, storeVars,
                    cluVars, lateVars >>

\* no listing
ListIdle == listStore = {} /\ lastList = NoList

\* any content of the stream, the persisted set and the hashes: an id is in
\* the stream or in the persisted set (or both)
ListInit ==
    /\ \E ids \in SUBSET StreamIdPool :
       \E f \in [ids -> { s \in AlertStates : s.in_stream \/ s.persisted }] :
           listStore = StoreOf(f, ids)
    /\ lastList = NoList

NextList ==
    \E limit \in 1..MaxLimit, env_id \in EnvNames \cup {NoEnv}, ok \in BOOLEAN :
        List_call(limit, env_id, ok)

(***************************************************************************)
(* Cross-source correlation: get_global_correlation and                    *)
(* get_global_correlation_graph                                            *)
(***************************************************************************)
Routes == {"global", "graph"}
Algorithms == {"hdbscan", "single_pass"}
Bases == {"prototypes", "logs"}
\* how a backend computation ends: clusters found, none found, or it raises
Outcomes == {"clusters", "empty", "fail"}
Absent == "absent"        \* a key the params dict does not have

\* _cache_key(route, params0): of the request parameters the model keeps
\* algorithm and basis
CacheKeys == Routes \X Algorithms \X Bases

NoPayload == [kind |-> "none", empty |-> TRUE, algorithm |-> Absent,
              basis |-> Absent, error |-> Absent, disabled |-> FALSE]

\* {"clusters": [], "params": {"error": "clustering_failed"}} and, for the
\* graph, {"nodes": [], "edges": [], "params": {"error": ...}}
ErrorPayload(kind) ==
    [kind |-> kind, empty |-> TRUE, algorithm |-> Absent, basis |-> Absent,
     error |-> "clustering_failed", disabled |-> FALSE]

\* {"clusters": [], "params": {"disabled": True}}
DisabledPayload(kind) ==
    [kind |-> kind, empty |-> TRUE, algorithm |-> Absent, basis |-> Absent,
     error |-> Absent, disabled |-> TRUE]

\* _compute_redis_clusters: params algorithm "grouped", basis "redis"
RedisPayload(outcome) ==
    [kind |-> "clusters", empty |-> (outcome = "empty"), algorithm |-> "grouped",
     basis |-> "redis", error |-> Absent, disabled |-> FALSE]

\* the payload of compute_global_prototype_clusters_hdbscan
HdbscanPayload(outcome) ==
    [kind |-> "clusters", empty |-> (outcome = "empty"), algorithm |-> "hdbscan",
     basis |-> "prototypes", error |-> Absent, disabled |-> FALSE]

\* the payload of compute_global_clusters (single pass over logs)
LogsPayload(outcome) ==
    [kind |-> "clusters", empty |-> (outcome = "empty"),
     algorithm |-> "single_pass", basis |-> "logs", error |-> Absent,
     disabled |-> FALSE]

\* params.setdefault("basis", "logs"); params.setdefault("algorithm",
\* "single_pass")
SetDefaults(p) ==
    [p EXCEPT !.basis = IF @ = Absent THEN "logs" ELSE @,
              !.algorithm = IF @ = Absent THEN "single_pass" ELSE @]

\* build_graph_from_clusters(base): nodes and edges of the clusters
GraphOf(base) == [base EXCEPT !.kind = "graph"]

\* (a handler without the DISABLE_HDBSCAN override)
EffectiveMode_requested(T, algorithm, basis) == << algorithm, basis >>

\* if DISABLE_HDBSCAN: algorithm = "single_pass"; basis = "logs"
EffectiveMode(T, algorithm, basis) ==
    IF T.disable_hdbscan THEN << "single_pass", "logs" >> ELSE << algorithm, basis >>

\* an answer of a handler: the payload is cached when store is TRUE
Answer(status, payload, invoked, store) ==
    [status |-> status, payload |-> payload, invoked |-> invoked, store |-> store]

\* the CORRELATION_FALLBACK_REDIS branch: _compute_redis_clusters and, for
\* the graph, build_graph_from_clusters, neither inside a try
RedisFallback(kind, rds, graph) ==
    IF rds = "fail" THEN Answer(500, NoPayload, {"redis"}, FALSE)
    ELSE IF kind = "graph"
         THEN IF graph = "fail"
              THEN Answer(500, NoPayload, {"redis", "graph"}, FALSE)
              ELSE Answer(200, GraphOf(RedisPayload(rds)), {"redis", "graph"}, TRUE)
         ELSE Answer(200, RedisPayload(rds), {"redis"}, TRUE)

\* (a clustering that returns the empty HDBSCAN result as it is)
Clustering_no_fallback(kind, algorithm, basis, hdb, lgs) ==
    IF basis = "prototypes" /\ algorithm = "hdbscan"
    THEN IF hdb = "fail" THEN Answer(200, ErrorPayload(kind), {"hdbscan"}, TRUE)
         ELSE Answer(200, HdbscanPayload(hdb), {"hdbscan"}, TRUE)
    ELSE IF lgs = "fail" THEN Answer(200, ErrorPayload(kind), {"logs"}, TRUE)
         ELSE Answer(200, LogsPayload(lgs), {"logs"}, TRUE)

\* the clustering of both handlers after the toggles: the base payload, or
\* the error payload when a computation raised
Clustering(kind, algorithm, basis, hdb, lgs) ==
    IF basis = "prototypes" /\ algorithm = "hdbscan"
    THEN IF hdb = "fail" THEN Answer(200, ErrorPayload(kind), {"hdbscan"}, TRUE)
         ELSE IF hdb = "clusters"
              THEN Answer(200, HdbscanPayload(hdb), {"hdbscan"}, TRUE)
              ELSE IF lgs = "fail"
                   THEN Answer(200, ErrorPayload(kind), {"hdbscan", "logs"}, TRUE)
                   ELSE Answer(200, SetDefaults(LogsPayload(lgs)),
                               {"hdbscan", "logs"}, TRUE)
    ELSE IF lgs = "fail" THEN Answer(200, ErrorPayload(kind), {"logs"}, TRUE)
         ELSE Answer(200, LogsPayload(lgs), {"logs"}, TRUE)

\* _CACHE = {}
EmptyCache == [k \in {} |-> NoPayload]

\* _cache_get: the payload stored under the key, if any
cache_get(C, key) == IF key \in DOMAIN C THEN C[key] ELSE NoPayload

\* _cache_set
cache_set(C, key, payload) ==
    [k \in DOMAIN C \cup {key} |-> IF k = key THEN payload ELSE C[k]]

\* get_global_correlation(algorithm, basis) with toggles T and cache C;
\* hdb, lgs, rds are the outcomes of the computations it may call
get_global_correlation(T, C, algorithm0, basis0, hdb, lgs, rds) ==
    LET algorithm == EffectiveMode(T, algorithm0, basis0)[1]
        basis == EffectiveMode(T, algorithm0, basis0)[2]
        key == << "global", algorithm, basis >>
    IN IF cache_get(C, key) # NoPayload THEN Answer(200, cache_get(C, key), {}, FALSE)
       ELSE IF T.disable_global
            THEN Answer(200, DisabledPayload("clusters"), {}, TRUE)
       ELSE IF T.fallback_redis THEN RedisFallback("clusters", rds, "ok")
       ELSE Clustering("clusters", algorithm, basis, hdb, lgs)

\* get_global_correlation_graph(algorithm, basis); graph is the outcome of
\* build_graph_from_clusters
get_global_correlation_graph(T, C, algorithm0, basis0, hdb, lgs, rds, graph) ==
    LET algorithm == EffectiveMode(T, algorithm0, basis0)[1]
        basis == EffectiveMode(T, algorithm0, basis0)[2]
        key == << "graph", algorithm, basis >>
        base == Clustering("graph", algorithm, basis, hdb, lgs)
    IN IF cache_get(C, key) # NoPayload THEN Answer(200, cache_get(C, key), {}, FALSE)
       ELSE IF T.disable_global
            THEN Answer(200, DisabledPayload("graph"), {}, TRUE)
       ELSE IF T.fallback_redis THEN RedisFallback("graph", rds, graph)
       ELSE IF base.payload.error # Absent THEN base
       ELSE IF graph = "fail"
            THEN Answer(500, NoPayload, base.invoked \cup {"graph"}, FALSE)
            ELSE Answer(200, GraphOf(base.payload), base.invoked \cup {"graph"}, TRUE)

NoCorr ==
    [called |-> FALSE, route |-> "global", algorithm |-> "hdbscan",
     basis |-> "prototypes", status |-> 0, payload |-> NoPayload,
     invoked |-> {}, hdb |-> "none", cached |-> FALSE, failed |-> {}]

\* the computations of the set invoked that raised
FailedOf(invoked, hdb, lgs, rds, graph) ==
    { b \in invoked : \/ b = "hdbscan" /\ hdb = "fail"
                      \/ b = "logs" /\ lgs = "fail"
                      \/ b = "redis" /\ rds = "fail"
                      \/ b = "graph" /\ graph = "fail" }

\* GET /correlation/global or /correlation/graph
Corr_call(route, algorithm, basis, hdb, lgs, rds, graph) ==
    /\ ncorr < MaxCorrCalls
    /\ ncorr' = ncorr + 1
    /\ LET a == IF route = "global"
                THEN get_global_correlation(toggles, cache, algorithm, basis,
                                            hdb, lgs, rds)
                ELSE get_global_correlation_graph(toggles, cache, algorithm,
                                                  basis, hdb, lgs, rds, graph)
           key == << route >> \o EffectiveMode(toggles, algorithm, basis)
       IN /\ cache' = IF a.store THEN cache_set(cache, key, a.payload) ELSE cache
          /\ lastCorr' = [called |-> TRUE, route |-> route,
                          algorithm |-> algorithm, basis |-> basis,
                          status |-> a.status, payload |-> a.payload,
                          invoked |-> a.invoked,
                          hdb |-> IF "hdbscan" \in a.invoked THEN hdb ELSE "none",
                          cached |-> (cache_get(cache, key) # NoPayload),
                          failed |-> FailedOf(a.invoked, hdb, lgs, rds, graph)]
    /\ UNCHANGED << toggles, listVars, ecorrVars, aggVars, enrVars, storeVars,
                    cluVars, lateVars >>

\* _cache_get after _CACHE_TTL_SEC: the entry is dropped
Cache_expire(key) ==
    /\ key \in DOMAIN cache
    /\ cache' = [k \in DOMAIN cache \ {key} |-> cache[k]]
    /\ UNCHANGED << toggles, lastCorr, ncorr, listVars, ecorrVars, aggVars,
                    enrVars, storeVars, cluVars, lateVars >>

Toggles == [disable_hdbscan : BOOLEAN, disable_global : BOOLEAN,
            fallback_redis : BOOLEAN]

CorrIdle ==
    /\ toggles = [disable_hdbscan |-> FALSE, disable_global |-> FALSE,
                  fallback_redis |-> FALSE]
    /\ cache = EmptyCache
    /\ lastCorr = NoCorr
    /\ ncorr = 0

\* the process starts with any setting of the three environment toggles
CorrInit ==
    /\ toggles \in Toggles
    /\ cache = EmptyCache
    /\ lastCorr = NoCorr
    /\ ncorr = 0

NextCorr ==
    \/ \E route \in Routes, algorithm \in Algorithms, basis \in Bases,
          hdb \in Outcomes, lgs \in Outcomes, rds \in Outcomes,
          graph \in {"ok", "fail"} :
           Corr_call(route, algorithm, basis, hdb, lgs, rds, graph)
    \/ \E key \in CacheKeys : Cache_expire(key)

(***************************************************************************)
(* Env-scoped correlation: environment_correlation and _build_correlation  *)
(***************************************************************************)
\* Medoid texts, as the phrases they are made of
Medoids ==
    { << "Disk", "FAILED" >>, << "Request", "Timeout" >>, << "link", "up" >> }

\* str.lower() of a phrase
Lower(w) ==
    CASE w = "Disk" -> "disk"
      [] w = "FAILED" -> "failed"
      [] w = "Request" -> "request"
      [] w = "Timeout" -> "timeout"
      [] OTHER -> w

\* x in med_l: the keyword occurs in the lower-cased text
ContainsKeyword(medoid, x) == \E k \in 1..Len(medoid) : Lower(medoid[k]) = x

\* the keywords of _severity_from_medoid in environments.py
EnvKeywords ==
    { "failed", "error", "critical", "i/o error", "out of memory", "servfail" }

\* the keywords of _severity_from_medoid in incidents.py
IncidentKeywords ==
    { "failed", "error", "critical", "i/o error", "out of memory", "servfail",
      "timeout" }

\* environments._severity_from_medoid
severity_from_medoid(medoid) ==
    IF \E x \in EnvKeywords : ContainsKeyword(medoid, x)
    THEN "critical" ELSE "warning"

\* incidents._severity_from_medoid
incident_severity_from_medoid(medoid) ==
    IF \E x \in IncidentKeywords : ContainsKeyword(medoid, x)
    THEN "critical" ELSE "warning"

\* v.strip() for the values the raw lines carry
Strip(v) ==
    CASE v = " h1 " -> "h1"
      [] v = " " -> ""
      [] OTHER -> v

\* Raw log lines.  json: the line parses to a JSON object; names: the values
\* of the keys ComputerName .. testName that are present, in the order the
\* code tries them; affected: affectedComponent.name; ips: the values of the
\* ip keys that are present.
RawLines ==
    { [json |-> FALSE, names |-> << "h1" >>, affected |-> "", ips |-> << >>],
      [json |-> TRUE, names |-> << " ", " h1 " >>, affected |-> "", ips |-> << >>],
      [json |-> TRUE, names |-> << "h1", "h2" >>, affected |-> "h2",
       ips |-> << "h1" >>] }

RECURSIVE FirstNonBlank(_)
\* the first value that is not blank, stripped (the loop with break)
FirstNonBlank(vs) ==
    IF vs = << >> THEN << >>
    ELSE IF Strip(Head(vs)) # "" THEN << Strip(Head(vs)) >>
    ELSE FirstNonBlank(Tail(vs))

RECURSIVE AllNonBlank(_)
\* every value that is not blank, stripped
AllNonBlank(vs) ==
    IF vs = << >> THEN << >>
    ELSE IF Strip(Head(vs)) # ""
         THEN << Strip(Head(vs)) >> \o AllNonBlank(Tail(vs))
         ELSE AllNonBlank(Tail(vs))

RECURSIVE Deduped(_)
\* the values in order, each once
Deduped(vs) ==
    IF vs = << >> THEN << >>
    ELSE LET front == Deduped(SubSeq(vs, 1, Len(vs) - 1))
             x == vs[Len(vs)]
         IN IF x \in SeqToSet(front) THEN front ELSE Append(front, x)

\* _extract_host_identifiers(raw)
extract_host_identifiers(raw) ==
    IF ~raw.json THEN << >>
    ELSE Deduped(FirstNonBlank(raw.names)
                 \o AllNonBlank(<< raw.affected >>)
                 \o AllNonBlank(raw.ips))

\* how often x occurs in the sequence vs
CountIn(vs, x) == Cardinality({ k \in 1..Len(vs) : vs[k] = x })

RECURSIVE HostsOfSamples(_)
\* the host identifiers of all samples, one after the other
HostsOfSamples(samples) ==
    IF samples = << >> THEN << >>
    ELSE extract_host_identifiers(Head(samples)) \o HostsOfSamples(Tail(samples))

\* host_counts of a cluster: for each host of its samples, the number of
\* times it was extracted
host_counts(samples) ==
    LET hs == HostsOfSamples(samples)
    IN [h \in SeqToSet(hs) |-> CountIn(hs, h)]

\* the overlay of a cluster c whose host_counts is not empty
Overlay(c) ==
    [id |-> c.id, size |-> c.size, severity |-> severity_from_medoid(c.medoid),
     medoid |-> c.medoid, host_breakdown |-> host_counts(c.samples),
     sample_logs |-> Prefix(c.samples, OverlaySampleCut)]

\* (an overlay for every cluster that has an id)
HasOverlay_with_id(c) == c.id # ""

\* a cluster gets an overlay when it has an id and a host
HasOverlay(c) == c.id # "" /\ DOMAIN host_counts(c.samples) # {}

RECURSIVE Overlays(_)
\* cluster_overlays in the order of the loop
Overlays(clusters) ==
    IF clusters = << >> THEN << >>
    ELSE IF HasOverlay(Head(clusters))
         THEN << Overlay(Head(clusters)) >> \o Overlays(Tail(clusters))
         ELSE Overlays(Tail(clusters))

\* (an update in which the last cluster decides)
ImpactSeverity_last_wins(old, severity) == severity

\* if severity == "critical": critical; elif severity == "warning" and the
\* node is not critical: warning
ImpactSeverity(old, severity) ==
    IF severity = "critical" THEN "critical"
    ELSE IF severity = "warning" /\ old # "critical" THEN "warning"
    ELSE old

RECURSIVE NodeImpacts(_)
\* node_impacts after the loop over the overlays, in order
NodeImpacts(overlays) ==
    IF overlays = << >> THEN << >>
    ELSE LET prev == NodeImpacts(SubSeq(overlays, 1, Len(overlays) - 1))
             o == overlays[Len(overlays)]
             hosts == DOMAIN o.host_breakdown
             before(h) == IF h \in DOMAIN prev THEN prev[h]
                          ELSE [severity |-> "healthy", clusters |-> << >>]
         IN [h \in DOMAIN prev \cup hosts |->
                IF h \in hosts
                THEN [severity |-> ImpactSeverity(before(h).severity, o.severity),
                      clusters |-> Append(before(h).clusters,
                                          [id |-> o.id, weight |-> o.host_breakdown[h]])]
                ELSE prev[h]]

RECURSIVE SortedBySize(_)
\* cluster_overlays.sort(key=size, reverse=True): a stable sort
SortedBySize(overlays) ==
    IF overlays = << >> THEN << >>
    ELSE LET top == CHOOSE k \in 1..Len(overlays) :
                        /\ \A j \in 1..Len(overlays) :
                               overlays[j].size <= overlays[k].size
                        /\ \A j \in 1..(k - 1) :
                               overlays[j].size < overlays[k].size
         IN << overlays[top] >>
                \o SortedBySize(SubSeqWhere(overlays, (1..Len(overlays)) \ {top}))

\* _build_correlation(env_id): disabled is DISABLE_GLOBAL_CLUSTERING, ok is
\* FALSE when compute_global_clusters raises, clusters is its payload
build_correlation(disabled, ok, clusters) ==
    IF disabled THEN [clusters |-> << >>, node_impacts |-> << >>, params |-> "disabled"]
    ELSE IF ~ok THEN [clusters |-> << >>, node_impacts |-> << >>,
                      params |-> "clustering_failed"]
    ELSE [clusters |-> SortedBySize(Overlays(clusters)),
          node_impacts |-> NodeImpacts(Overlays(clusters)),
          params |-> "single_pass"]

NoEnvPayload == [clusters |-> << >>, node_impacts |-> << >>, params |-> "none"]

NoEnvCall == [called |-> FALSE, status |-> 0, payload |-> NoEnvPayload]

\* GET /environments/{env_id}/correlation; known: env_id is among the
\* discovered (or fallback) environments; ok: the clustering did not raise
Env_correlation(known, ok) ==
    /\ nenv < MaxEnvCalls
    /\ nenv' = nenv + 1
    /\ IF ~known
       THEN /\ lastEnv' = [called |-> TRUE, status |-> 404, payload |-> NoEnvPayload]
            /\ UNCHANGED envCache
       ELSE IF envCache # NoEnvPayload
       THEN /\ lastEnv' = [called |-> TRUE, status |-> 200, payload |-> envCache]
            /\ UNCHANGED envCache
       ELSE LET payload == build_correlation(toggles.disable_global, ok, envClusters)
            IN /\ lastEnv' = [called |-> TRUE, status |-> 200, payload |-> payload]
               /\ envCache' = payload
    /\ UNCHANGED << envClusters, listVars, corrVars, aggVars, enrVars, storeVars,
                    cluVars, lateVars >>

\* the cached payload is older than _CORR_CACHE_TTL_SEC
EnvCache_expire ==
    /\ envCache # NoEnvPayload
    /\ envCache' = NoEnvPayload
    /\ UNCHANGED << envClusters, lastEnv, nenv, listVars, corrVars, aggVars,
                    enrVars, storeVars, cluVars, lateVars >>

\* the clusters compute_global_clusters returns for the environment: each
\* has an id (possibly empty) and a medoid ...
ClusterShapes == [has_id : BOOLEAN, medoid : Medoids]

\* the id of the k-th cluster of the payload
ClusterId(k) ==
    CASE k = 1 -> "gcluster_1"
      [] k = 2 -> "gcluster_2"
      [] OTHER -> "gcluster_3"

\* ... and sample logs; its size is one more than the number of its
\* sample logs
ClusterOf(k, s, samples) ==
    [id |-> IF s.has_id THEN ClusterId(k) ELSE "",
     size |-> Len(samples) + 1,
     medoid |-> s.medoid, samples |-> samples]

EnvIdle ==
    /\ envClusters = << >>
    /\ envCache = NoEnvPayload
    /\ lastEnv = NoEnvCall
    /\ nenv = 0

EnvInit ==
    /\ \E n \in 0..MaxClusters, m \in 0..MaxSamples :
           \E f \in [1..n -> ClusterShapes], raw \in [1..m -> RawLines],
              owner \in [1..m -> 1..n] :
               /\ \A j \in 1..(m - 1) : owner[j] <= owner[j + 1]
               /\ envClusters =
                      [k \in 1..n |->
                          ClusterOf(k, f[k],
                                    SubSeqWhere(raw, { j \in 1..m : owner[j] = k }))]
    /\ envCache = NoEnvPayload
    /\ lastEnv = NoEnvCall
    /\ nenv = 0

NextEnv ==
    \/ \E known \in BOOLEAN, ok \in BOOLEAN : Env_correlation(known, ok)
    \/ EnvCache_expire

(***************************************************************************)
(* The try block of the enricher's loop body, for one candidate            *)
(***************************************************************************)
\* the env_id of a log: "" when the log has none
EnvIdValues == {"", "e1", "e2"}

NoDocId == 0          \* s.get("id") or "": the sample logs carry no id

\* what tcoll.query returns for the centroid: the ids of the neighbors
NeighborLists == { << >>, << "t1" >> }

\* the documents of logs_<os> whose cluster_id is the candidate's, in the
\* order the collection returns them: document k has id k
DocLists ==
    UNION { [1..n -> [id : {0}, env_id : EnvIdValues]] : n \in 0..MaxDocs }

DocsOf(f) == [k \in DOMAIN f |-> [f[k] EXCEPT !.id = k]]

\* json.loads(data.get("sample_logs") or "[]")
SampleLists ==
    UNION { [1..n -> [env_id : EnvIdValues]] : n \in 0..MaxSampleLogs }

\* lcoll.get(where={"cluster_id": cluster_id}, ..., limit=30); an error gives {}
logs_get(docs, fault) ==
    IF fault = "logs_get" THEN << >> ELSE Prefix(docs, EvidenceLimit)

\* the entries of retrieved built from the documents found
Retrieved(res) == [i \in 1..Len(res) |-> [id |-> res[i].id, env_id |-> res[i].env_id]]

\* the entries of retrieved built from sample_logs[:10]
FromSamples(sample_logs) ==
    LET s == Prefix(sample_logs, SampleLogsCut)
    IN [i \in 1..Len(s) |-> [id |-> NoDocId, env_id |-> s[i].env_id]]

\* (evidence that always adds the candidate's sample logs)
Evidence_with_samples(retrieved, sample_logs) ==
    retrieved \o FromSamples(sample_logs)

\* if not retrieved: the fallback to the candidate's sample logs
Evidence(retrieved, sample_logs) ==
    IF retrieved = << >> THEN FromSamples(sample_logs) ELSE retrieved

\* env_ids_set after the loops: the env_id values of the evidence that are
\* not empty, else those of the candidate's env_ids
EnvIdsOf(evidence, cand_env_ids) ==
    LET found == { evidence[i].env_id : i \in 1..Len(evidence) } \ {""}
    IN IF found = {} THEN cand_env_ids \ {""} ELSE found

\* env_ids_list[0] if len(env_ids_list) == 1 else ""
AlertEnvId(env_ids) ==
    IF Cardinality(env_ids) = 1 THEN CHOOSE e \in env_ids : TRUE ELSE ""

\* (a neighbor query whose index errors abort the body as the others do)
NeighborsSwallowed_none(fault) == FALSE

\* the except of the neighbor query: an error naming a corrupted index is
\* logged, any other is raised again
NeighborsSwallowed(fault) == fault = "neighbors_index"

\* the body raised at this call
BodyRaises(fault) ==
    EnrRaises(fault) \/ (fault = "neighbors_index" /\ ~NeighborsSwallowed(fault))

\* the calls before classify_cluster that end the body when they raise
BeforeClassify ==
    {"get_prototype", "neighbors_index", "neighbors_other", "hypothesis",
     "logs_collection"}

\* the try block for the candidate data, with the prototype collection P,
\* the documents docs of the cluster in logs_<os> and the answer nbrs of the
\* neighbor query; fault is the call that raises, ftype the classification
enrich_candidate(data, P, docs, nbrs, fault, ftype) ==
    LET proto == get_prototype(P, data.os, data.cluster_id)
        queried == proto # << >>
        neighbors == IF queried /\ fault \notin {"neighbors_index", "neighbors_other"}
                     THEN nbrs ELSE << >>
        retrieved == Retrieved(logs_get(docs, fault))
        evidence == Evidence(retrieved, data.sample_logs)
        env_ids == EnvIdsOf(evidence, data.env_ids)
        raised == BodyRaises(fault)
        classified == ~(raised /\ fault \in BeforeClassify)
        entry == [type |-> "cluster", os |-> data.os,
                  cluster_id |-> data.cluster_id, failure_type |-> ftype,
                  env_id |-> AlertEnvId(env_ids), env_ids |-> env_ids,
                  evidence_logs |-> evidence]
    IN [raised |-> raised,
        classified |-> classified,
        neighbors |-> IF classified THEN neighbors ELSE << >>,
        used_samples |-> classified /\ retrieved = << >>,
        alerts |-> IF raised THEN << >> ELSE << entry >>,
        protos |-> IF UpdatesPrototype(raised, fault)
                   THEN update_prototype(P, data.os, data.cluster_id, ftype)
                   ELSE P]

NoBodyIn ==
    [data |-> [os |-> "linux", cluster_id |-> NoCluster, env_ids |-> {},
               sample_logs |-> << >>],
     protos |-> {}, docs |-> << >>, nbrs |-> << >>]

NoBody == [called |-> FALSE]

\* the body runs for the candidate
Body_call(fault, ftype) ==
    /\ ~lastBody.called
    /\ fault \in {"neighbors_index", "neighbors_other"} =>
           get_prototype(bodyIn.protos, bodyIn.data.os, bodyIn.data.cluster_id) # << >>
    /\ lastBody' = [called |-> TRUE, fault |-> fault, ftype |-> ftype,
                    out |-> enrich_candidate(bodyIn.data, bodyIn.protos,
                                             bodyIn.docs, bodyIn.nbrs, fault, ftype)]
    /\ UNCHANGED << bodyIn, listVars, corrVars, ecorrVars, aggVars, enrVars,
                    storeVars, cluVars, supVars, ttlVars >>

\* the prototype collections the body meets: the candidate's prototype as
\* the clusterer created it, as an earlier enrichment left it, or missing
BodyProtos ==
    LET fresh == [id |-> 1, os |-> "linux", text |-> 1, label |-> "unknown",
                  rationale |-> "online", size |-> 1, created_by |-> "online",
                  solution |-> NoSolution]
        other == [fresh EXCEPT !.id = 2, !.text = 4]
    IN { {other}, {fresh, other},
         update_prototype({fresh, other}, "linux", 1, "network") }

BodyIdle == bodyIn = NoBodyIn /\ lastBody = NoBody

BodyInit ==
    /\ \E d \in DocLists, s \in SampleLists, e \in SUBSET {"e1", "e2"},
          P \in BodyProtos, n \in NeighborLists :
           bodyIn = [data |-> [os |-> "linux", cluster_id |-> 1, env_ids |-> e,
                               sample_logs |-> s],
                     protos |-> P, docs |-> DocsOf(d), nbrs |-> n]
    /\ lastBody = NoBody

NextBody == \E f \in EnrFaults, t \in FailureTypes : Body_call(f, t)

(***************************************************************************)
(* The supervisors: _run_forever of attach_issues_aggregator and of        *)
(* attach_cluster_enricher                                                 *)
(***************************************************************************)
Workers == {"aggregator", "enricher"}

\* backoff = 1.0; while True: try: await run_...()
SupStart == [at |-> "running", backoff |-> 1, delays |-> << >>]

\* the worker raises an exception: except Exception logs it and the
\* supervisor sleeps for backoff seconds
Sup_crash(w) ==
    /\ sup[w].at = "running"
    /\ Len(sup[w].delays) < MaxCrashes
    /\ sup' = [sup EXCEPT ![w].at = "sleeping",
                          ![w].delays = Append(@, sup[w].backoff)]
    /\ UNCHANGED << listVars, corrVars, ecorrVars, bodyVars, ttlVars, aggVars,
                    enrVars, storeVars, cluVars >>

\* the sleep is over: the backoff is doubled up to the cap and the loop
\* runs the worker again
Sup_restart(w) ==
    /\ sup[w].at = "sleeping"
    /\ sup' = [sup EXCEPT ![w].at = "running",
                          ![w].backoff = NextBackoff(@)]
    /\ UNCHANGED << listVars, corrVars, ecorrVars, bodyVars, ttlVars, aggVars,
                    enrVars, storeVars, cluVars >>

SupInit == sup = [w \in Workers |-> SupStart]

NextSup ==
    \/ \E w \in Workers : Sup_crash(w)
    \/ \E w \in Workers : Sup_restart(w)

(***************************************************************************)
(* The caches of the correlation, environment and incident handlers with   *)
(* their time to live, and the discovery of the environments               *)
(***************************************************************************)
EnvIds == {"e1", "e2"}

\* how _discover_env_ids under asyncio.wait_for ends
DiscoveryOutcomes == {"ok", "raises", "timeout"}

\* the env_id parameter of list_incidents: "None" is the absent parameter
IncidentEnvIds == {"None", "", "__all__", "e1"}

\* the seconds a computation takes
Durations == 0..1

\* (a discovery whose failure leaves no environment)
ResolveEnvIds_no_fallback(disabled, outcome, discovered, fallback) ==
    IF disabled THEN fallback
    ELSE IF outcome = "ok" THEN discovered ELSE {}

\* if _chroma_disabled(): env_ids = _fallback_env_ids(); else try: env_ids =
\* await wait_for(to_thread(_discover_env_ids), timeout) except Exception:
\* env_ids = _fallback_env_ids()
ResolveEnvIds(disabled, outcome, discovered, fallback) ==
    IF disabled THEN fallback
    ELSE IF outcome = "ok" THEN discovered ELSE fallback

\* cached and (now - cached[0]) <= _CACHE_TTL_SEC; in _cache_get, not
\* (time.time() - ts) > _CACHE_TTL_SEC
Fresh(C, key, t) == key \in DOMAIN C /\ t - C[key].ts <= CACHE_TTL_SEC

\* the payloads a handler can still read from its cache at time t
LiveView(C, t) ==
    [k \in { k \in DOMAIN C : Fresh(C, k, t) } |-> C[k].payload]

\* _CACHE.pop(key, None) of _cache_get for an expired entry
Popped(C, key, t) ==
    IF key \in DOMAIN C /\ ~Fresh(C, key, t)
    THEN [k \in DOMAIN C \ {key} |-> C[k]]
    ELSE C

\* _CACHE[key] = (ts, payload); for is the effective parameters of the
\* request that computed the payload
Stamped(C, key, ts, for, payload) ==
    [k \in DOMAIN C \cup {key} |->
        IF k = key THEN [ts |-> ts, for |-> for, payload |-> payload] ELSE C[k]]

\* the entry a request finds under its key
EntryAt(C, key) ==
    IF key \in DOMAIN C
    THEN [found |-> TRUE, ts |-> C[key].ts, for |-> C[key].for,
          payload |-> C[key].payload]
    ELSE [found |-> FALSE]

\* cache_key = (env_id or "__all__", limit, include_logs, limit_per_source):
\* of the parameters the model keeps env_id
IncidentKey(env_id) == IF env_id \in {"None", ""} THEN "__all__" ELSE env_id

\* compute_global_clusters(env_id=env_id): the environment the incidents
\* are scoped to, none for an absent or empty env_id
IncidentScope(env_id) == IF env_id \in {"None", ""} THEN "None" ELSE env_id

NoReq == [handler |-> "none"]

\* GET /correlation/global and /correlation/graph at time wall; a
\* computation takes d seconds and _cache_set stamps the entry when it is
\* over
Ttl_correlation(route, algorithm, basis, hdb, lgs, rds, graph, d) ==
    LET key == << route >> \o EffectiveMode(toggles, algorithm, basis)
        C == ttlCache.corr
        a == IF route = "global"
             THEN get_global_correlation(toggles, LiveView(C, wall), algorithm,
                                         basis, hdb, lgs, rds)
             ELSE get_global_correlation_graph(toggles, LiveView(C, wall),
                                               algorithm, basis, hdb, lgs, rds,
                                               graph)
        took == IF a.invoked = {} THEN 0 ELSE d
        after == IF a.store
                 THEN Stamped(Popped(C, key, wall), key, wall + took, key, a.payload)
                 ELSE Popped(C, key, wall)
    IN /\ nttl < MaxTtlCalls
       /\ wall + took <= MaxWall
       /\ nttl' = nttl + 1
       /\ wall' = wall + took
       /\ ttlCache' = [ttlCache EXCEPT !.corr = after]
       /\ lastReq' = [handler |-> "correlation", key |-> key, for |-> key,
                      at |-> wall, status |-> a.status, payload |-> a.payload,
                      cached |-> (a.status = 200 /\ ~a.store),
                      ran |-> (a.invoked # {}), hit |-> EntryAt(C, key),
                      entry |-> EntryAt(after, key)]
       /\ UNCHANGED << fallbackIds, listVars, corrVars, ecorrVars, bodyVars,
                       supVars, aggVars, enrVars, storeVars, cluVars >>

\* GET /environments/{env_id}/correlation; ok: compute_global_clusters did
\* not raise, topo: _build_topology_from_logs did not raise; the entry is
\* stamped with the time read before the computation
Ttl_environment_correlation(env_id, outcome, discovered, ok, topo, d) ==
    LET disabled == toggles.disable_global
        env_ids == ResolveEnvIds(disabled, outcome, discovered, fallbackIds)
        C == ttlCache.env
        payload == [environment_id |-> env_id,
                    params |-> build_correlation(disabled, ok, << >>).params]
        computes == env_id \in env_ids /\ ~Fresh(C, env_id, wall)
        raises == computes /\ ~disabled /\ ~topo
        took == IF computes /\ ~disabled THEN d ELSE 0
        after == IF computes /\ ~raises
                 THEN Stamped(C, env_id, wall, env_id, payload)
                 ELSE C
    IN /\ nttl < MaxTtlCalls
       /\ wall + took <= MaxWall
       /\ nttl' = nttl + 1
       /\ wall' = wall + took
       /\ ttlCache' = [ttlCache EXCEPT !.env = after]
       /\ lastReq' = [handler |-> "environment_correlation", key |-> env_id,
                      for |-> env_id, at |-> wall,
                      status |-> IF env_id \notin env_ids THEN 404
                                 ELSE IF raises THEN 500 ELSE 200,
                      payload |-> IF env_id \notin env_ids \/ raises
                                  THEN [environment_id |-> "", params |-> "none"]
                                  ELSE IF computes THEN payload
                                  ELSE C[env_id].payload,
                      cached |-> (env_id \in env_ids /\ ~computes),
                      ran |-> (computes /\ ~disabled),
                      hit |-> EntryAt(C, env_id),
                      entry |-> EntryAt(after, env_id),
                      outcome |-> outcome, discovered |-> discovered,
                      items |-> {}, touched |-> (after # C)]
       /\ UNCHANGED << fallbackIds, listVars, corrVars, ecorrVars, bodyVars,
                       supVars, aggVars, enrVars, storeVars, cluVars >>

\* GET /environments/{env_id}
Ttl_environment_detail(env_id, outcome, discovered, topo) ==
    LET disabled == toggles.disable_global
        env_ids == ResolveEnvIds(disabled, outcome, discovered, fallbackIds)
        raises == env_id \in env_ids /\ ~disabled /\ ~topo
    IN /\ nttl < MaxTtlCalls
       /\ nttl' = nttl + 1
       /\ lastReq' = [handler |-> "environment_detail", key |-> env_id,
                      status |-> IF env_id \notin env_ids THEN 404
                                 ELSE IF raises THEN 500 ELSE 200,
                      outcome |-> outcome, discovered |-> discovered,
                      items |-> {}, touched |-> FALSE]
       /\ UNCHANGED << wall, ttlCache, fallbackIds, listVars, corrVars,
                       ecorrVars, bodyVars, supVars, aggVars, enrVars,
                       storeVars, cluVars >>

\* GET /environments: the ids of the items, one per environment
Ttl_list_environments(outcome, discovered) ==
    LET env_ids == ResolveEnvIds(toggles.disable_global, outcome, discovered,
                                 fallbackIds)
    IN /\ nttl < MaxTtlCalls
       /\ nttl' = nttl + 1
       /\ lastReq' = [handler |-> "list_environments", key |-> "",
                      status |-> 200, outcome |-> outcome,
                      discovered |-> discovered, items |-> env_ids,
                      touched |-> FALSE]
       /\ UNCHANGED << wall, ttlCache, fallbackIds, listVars, corrVars,
                       ecorrVars, bodyVars, supVars, aggVars, enrVars,
                       storeVars, cluVars >>

\* GET /incidents; ok: compute_global_clusters returned in time; the entry
\* is stamped with the time read before the computation
Ttl_list_incidents(env_id, ok, d) ==
    LET key == IncidentKey(env_id)
        C == ttlCache.inc
        disabled == toggles.disable_global
        payload == IF disabled THEN "disabled"
                   ELSE IF ~ok THEN "error" ELSE "incidents"
        computes == ~Fresh(C, key, wall)
        took == IF computes /\ ~disabled THEN d ELSE 0
        after == IF computes
                 THEN Stamped(C, key, wall, IncidentScope(env_id), payload)
                 ELSE C
    IN /\ nttl < MaxTtlCalls
       /\ wall + took <= MaxWall
       /\ nttl' = nttl + 1
       /\ wall' = wall + took
       /\ ttlCache' = [ttlCache EXCEPT !.inc = after]
       /\ lastReq' = [handler |-> "list_incidents", key |-> key,
                      for |-> IncidentScope(env_id), at |-> wall,
                      status |-> 200,
                      payload |-> IF computes THEN payload ELSE C[key].payload,
                      cached |-> ~computes, ran |-> (computes /\ ~disabled),
                      hit |-> EntryAt(C, key), entry |-> EntryAt(after, key)]
       /\ UNCHANGED << fallbackIds, listVars, corrVars, ecorrVars, bodyVars,
                       supVars, aggVars, enrVars, storeVars, cluVars >>

\* a second passes
Ttl_tick ==
    /\ wall < MaxWall
    /\ wall' = wall + 1
    /\ UNCHANGED << ttlCache, lastReq, nttl, fallbackIds, listVars, corrVars,
                    ecorrVars, bodyVars, supVars, aggVars, enrVars, storeVars,
                    cluVars >>

\* _CACHE = {} in correlation.py and in incidents.py, _CORR_CACHE = {}
NoTtlCache == [corr |-> EmptyCache, env |-> EmptyCache, inc |-> EmptyCache]

TtlIdle ==
    /\ wall = 0
    /\ ttlCache = NoTtlCache
    /\ lastReq = NoReq
    /\ nttl = 0
    /\ fallbackIds = {}

\* SIM_ENV_IDS holds any list of environments
TtlInit ==
    /\ wall = 0
    /\ ttlCache = NoTtlCache
    /\ lastReq = NoReq
    /\ nttl = 0
    /\ fallbackIds \in SUBSET EnvIds

\* the requests to the three cached handlers as time passes; the discovery
\* of the environments succeeds
NextTtl ==
    \/ \E route \in Routes, algorithm \in Algorithms, basis \in Bases,
          hdb \in {"empty", "fail"}, lgs \in {"clusters", "fail"},
          rds \in {"clusters", "fail"}, graph \in {"ok", "fail"},
          d \in Durations :
           Ttl_correlation(route, algorithm, basis, hdb, lgs, rds, graph, d)
    \/ \E env_id \in EnvIds, discovered \in {{"e1"}, EnvIds}, ok \in BOOLEAN,
          topo \in BOOLEAN, d \in Durations :
           Ttl_environment_correlation(env_id, "ok", discovered, ok, topo, d)
    \/ \E env_id \in IncidentEnvIds, ok \in BOOLEAN, d \in Durations :
           Ttl_list_incidents(env_id, ok, d)
    \/ Ttl_tick

\* the requests to the three handlers that discover the environments
NextDisc ==
    \/ \E env_id \in EnvIds, outcome \in DiscoveryOutcomes,
          discovered \in SUBSET EnvIds, ok \in BOOLEAN, topo \in BOOLEAN,
          d \in Durations :
           Ttl_environment_correlation(env_id, outcome, discovered, ok, topo, d)
    \/ \E env_id \in EnvIds, outcome \in DiscoveryOutcomes,
          discovered \in SUBSET EnvIds, topo \in BOOLEAN :
           Ttl_environment_detail(env_id, outcome, discovered, topo)
    \/ \E outcome \in DiscoveryOutcomes, discovered \in SUBSET EnvIds :
           Ttl_list_environments(outcome, discovered)

\* the query handlers are not called
ApiIdle == ListIdle /\ CorrIdle /\ EnvIdle /\ BodyIdle /\ SupInit /\ TtlIdle

(***************************************************************************)
(* Specifications                                                          *)
(***************************************************************************)
InitAgg == AggInit /\ EnrInit /\ StoreInit /\ CluInit /\ ApiIdle

SpecAgg == InitAgg /\ [][NextAgg]_vars

\* The worker's steps are taken whenever they stay possible, and a call that
\* can succeed does not fail for ever (Redis is available): the loop of
\* run_issues_aggregator and of its supervisor never stops by itself.
FairAgg ==
    /\ WF_vars(Agg_xgroup_create(TRUE))
    /\ WF_vars(Agg_xreadgroup(TRUE))
    /\ WF_vars(Agg_process_message("none"))
    /\ WF_vars(Agg_xack(TRUE))
    /\ WF_vars(\E n \in 0..MaxLogs : Agg_close_idle(n) /\ pc' = "read")
    /\ WF_vars(Agg_supervisor_restart)

FairSpecAgg == InitAgg /\ [][NextAgg]_vars /\ FairAgg

\* time passes: the wall clock advances as long as the model lets it
FairIssues == FairAgg /\ SF_vars(Tick)

FairSpecIssues == InitAgg /\ [][NextAgg]_vars /\ FairIssues

InitRepub == RepubInit /\ EnrInit /\ StoreInit /\ CluInit /\ ApiIdle

SpecRepub == InitRepub /\ [][NextRepub]_vars

InitEnr == AggInit /\ EnrInit /\ StoreInit /\ CluInit /\ ApiIdle

SpecEnr == InitEnr /\ [][NextEnr]_vars

InitClu == AggInit /\ EnrInit /\ StoreInit /\ CluInit /\ ApiIdle

SpecClu == InitClu /\ [][NextClu]_vars

InitAlerts == AggInit /\ EnrInit /\ StoreInit /\ CluInit /\ ApiIdle

SpecAlerts == InitAlerts /\ [][NextAlerts]_vars

InitList ==
    /\ AggInit /\ EnrInit /\ StoreInit /\ CluInit /\ ListInit /\ CorrIdle /\ EnvIdle
    /\ BodyIdle /\ SupInit /\ TtlIdle

SpecList == InitList /\ [][NextList]_vars

InitCorr ==
    /\ AggInit /\ EnrInit /\ StoreInit /\ CluInit /\ ListIdle /\ CorrInit /\ EnvIdle
    /\ BodyIdle /\ SupInit /\ TtlIdle

SpecCorr == InitCorr /\ [][NextCorr]_vars

\* the env correlation reads DISABLE_GLOBAL_CLUSTERING only
EnvToggles ==
    toggles \in { t \in Toggles : ~t.disable_hdbscan /\ ~t.fallback_redis }

InitEnv ==
    /\ AggInit /\ EnrInit /\ StoreInit /\ CluInit /\ ListIdle
    /\ EnvToggles
    /\ cache = EmptyCache
    /\ lastCorr = NoCorr
    /\ ncorr = 0
    /\ EnvInit
    /\ BodyIdle /\ SupInit /\ TtlIdle

InitBody ==
    /\ AggInit /\ EnrInit /\ StoreInit /\ CluInit /\ ListIdle /\ CorrIdle /\ EnvIdle
    /\ BodyInit /\ SupInit /\ TtlIdle

SpecBody == InitBody /\ [][NextBody]_vars

InitSup == AggInit /\ EnrInit /\ StoreInit /\ CluInit /\ ApiIdle

SpecSup == InitSup /\ [][NextSup]_vars

\* asyncio.sleep(backoff) returns: the event loop of the worker's thread
\* keeps running, so a supervisor that sleeps goes on
FairSup == \A w \in Workers : WF_vars(Sup_restart(w))

FairSpecSup == InitSup /\ [][NextSup]_vars /\ FairSup

\* every environment of the discovery is also in SIM_ENV_IDS
InitTtl ==
    /\ AggInit /\ EnrInit /\ StoreInit /\ CluInit /\ ListIdle /\ CorrInit /\ EnvIdle
    /\ BodyIdle /\ SupInit /\ TtlInit /\ fallbackIds = EnvIds

SpecTtl == InitTtl /\ [][NextTtl]_vars

\* of the toggles the discovery reads DISABLE_GLOBAL_CLUSTERING
InitDisc ==
    /\ AggInit /\ EnrInit /\ StoreInit /\ CluInit /\ ListIdle /\ CorrInit /\ EnvIdle
    /\ BodyIdle /\ SupInit /\ TtlInit
    /\ ~toggles.disable_hdbscan /\ ~toggles.fallback_redis

SpecDisc == InitDisc /\ [][NextDisc]_vars

SpecEnv == InitEnv /\ [][NextEnv]_vars

Spec == SpecAgg

(***************************************************************************)
(* Properties of the issues aggregator                                     *)
(***************************************************************************)
\* number of entries of clusters:candidates for cluster c
CandidatesOf(c) ==
    Cardinality({ i \in 1..Len(candidates) : candidates[i].cluster_id = c })

\* the message was delivered and its pass through the loop body is over
Processed(m) == delivered[m] >= 1 /\ m \notin SeqToSet(batch)

\* the batch the message came in has been through the XACK step
BatchDone(m) == Processed(m) /\ pc \notin {"proc", "ack"}

\* C1: with republishing disabled, for every cluster no candidate exists
\* while its counter is below CLUSTER_MIN_LOGS_FOR_CLASSIFICATION and exactly
\* one exists once the counter has reached or passed it, also when a Redis
\* call of the step failed.
C1_ExactlyOneCandidate ==
    repubEvery = 0 =>
        \A c \in ClusterIds :
            IF count[c] < CLUSTER_MIN_LOGS_FOR_CLASSIFICATION
            THEN CandidatesOf(c) = 0
            ELSE CandidatesOf(c) = 1

C3_ExactlyOnce ==
    \A m \in MsgIds :
        /\ appended[m] <= 1
        /\ incremented[m] <= 1
        /\ delivered[m] <= 1
        /\ Processed(m) => appended[m] = 1

\* C4: a message left unacked because its processing failed is eventually
\* delivered to the aggregator again.
C4_Redelivered ==
    \A m \in MsgIds :
        (Processed(m) /\ ~processed_ok(errorOf[m])) ~> (delivered[m] >= 2)

(***************************************************************************)
(* Properties of the cluster enricher                                      *)
(***************************************************************************)
\* number of entries of the alerts stream made from candidate c
AlertsOf(c) == Cardinality({ i \in 1..Len(alerts) : alerts[i].cand = c })

\* C5: every candidate whose body the worker has run, however the body
\* ended, has been passed to XACK before the worker goes on to the next
\* candidate or the next read.
C5_AckAlwaysIssued ==
    (erun \ (IF epc = "ack" THEN {ecur} ELSE {})) \subseteq exackArgs

\* C5 witness: a candidate whose processing raised has been passed to XACK
\* and the worker is about to process the next candidate of the response.
C5_Witness ==
    \E c \in CandIds :
        ebody[c] = "raised" /\ c \in erun /\ c \in exackArgs /\ epc = "proc"

C9_HashStoredWithTTL ==
    \A i \in 1..Len(alerts) :
        i \notin persistedSet =>
            /\ hash[i].exists
            /\ hash[i].ttl > 0
            /\ hash[i].ttl <= ALERTS_TTL_SEC

(***************************************************************************)
(* Properties of the alert store                                           *)
(***************************************************************************)
\* C7: no alert id is in both feedback sets, in any state an observer can
\* see, however add_feedback calls for the same id interleave.
C7_FeedbackSetsDisjoint == correctSet \cap incorrectSet = {}

\* C7 witness: two add_feedback requests of different kinds for one id were
\* served at the same time and both have executed their pipeline.
C7_Witness ==
    /\ reqs[1].op = "feedback" /\ reqs[2].op = "feedback"
    /\ reqs[1].id = reqs[2].id
    /\ reqs[1].kind # reqs[2].kind
    /\ reqs[1].status = 200 /\ reqs[2].status = 200

\* C8: every id of ALERTS_PERSISTED_SET has an existing hash alert:<id>
\* without expiry.
C8_PersistedHashHasNoExpiry ==
    \A a \in persistedSet : hash[a].exists /\ hash[a].ttl = -1

(***************************************************************************)
(* Properties of the online clusterer                                      *)
(***************************************************************************)
\* the nearest prototype of the os of the last call, in the collection the
\* call found
NearestBefore == nearest_prototype(lastCall.before, lastCall.os, lastCall.text)

\* the case of C10: the lookup answered with a prototype whose distance is
\* at most the effective threshold
C10_Case ==
    /\ lastCall.called
    /\ lastCall.fault # "lookup"
    /\ NearestBefore # << >>
    /\ NearestBefore[1].distance <= EffectiveThreshold(lastCall.threshold)

\* C10 as stated: whenever the nearest prototype P of the os collection is
\* at distance d <= tau, the call returns P's id and adds no prototype,
\* whether or not the lookup answered.
C10_NearestInCollectionWithinThreshold ==
    /\ lastCall.called
    /\ NearestBefore # << >>
    /\ NearestBefore[1].distance <= EffectiveThreshold(lastCall.threshold)
    => /\ lastCall.cid = NearestBefore[1].id
       /\ protos = lastCall.before

\* C10: when the lookup answers with the nearest prototype P of the os at
\* distance d <= tau (the boundary included; tau is the threshold argument
\* when given, else ONLINE_CLUSTER_DISTANCE_THRESHOLD),
\* assign_or_create_cluster returns P's id and leaves the prototype
\* collection as it was.
C10_AssignsNearestWithinThreshold ==
    C10_Case => /\ lastCall.cid = NearestBefore[1].id
                /\ protos = lastCall.before

\* C10 witness: a call whose nearest prototype is exactly at the threshold,
\* at a positive distance, with the threshold taken from the setting.
C10_Witness ==
    /\ C10_Case
    /\ lastCall.threshold = << >>
    /\ NearestBefore[1].distance = ONLINE_CLUSTER_DISTANCE_THRESHOLD
    /\ NearestBefore[1].distance > 0
    /\ lastCall.cid = NearestBefore[1].id

(***************************************************************************)
(* Properties of the logged documents' cluster ids                         *)
(***************************************************************************)
\* C11: every logged document whose metadata has a cluster_id refers to a
\* prototype that exists in the prototype collection of the same os.
C11_ClusterIdRefersToPrototype ==
    \A m \in 1..Len(logs) :
        logMeta[m] # NoCluster =>
            \E p \in protos : p.id = logMeta[m] /\ p.os = logs[m].os

(***************************************************************************)
(* Properties of the Issue life cycle                                      *)
(***************************************************************************)
\* the records of issues:candidates published for the Issue that starts with
\* log m (a log is appended to one Issue only, so m names the Issue)
RecordsOf(m) ==
    { i \in 1..Len(issuesStream) : issuesStream[i].logs[1] = m }

\* C12: every Issue is published to issues:candidates at most once, and once
\* it is published it is out of the issue map before the worker reads or
\* processes anything else (so a later log of the key starts a fresh Issue).
C12_PublishedOnceThenRemoved ==
    /\ \A m \in MsgIds : Cardinality(RecordsOf(m)) <= 1
    /\ pc # "sweep" =>
           \A i \in 1..Len(issues) : RecordsOf(issues[i].logs[1]) = {}

\* C13: a record of issues:candidates is emitted only for an idle Issue: at
\* the emission at least ISSUE_INACTIVITY_SEC passed since the last log was
\* appended to the Issue, by the sweep's now and by the wall clock, and the
\* sweep read the Issue with all the logs appended to it.
C13_ClosedOnlyWhenIdle ==
    \A i \in 1..Len(closedAt) :
        /\ closedAt[i].now - closedAt[i].seen >= ISSUE_INACTIVITY_SEC
        /\ closedAt[i].at - closedAt[i].seen >= ISSUE_INACTIVITY_SEC
        /\ \A m \in MsgIds :
               (appended[m] >= 1 /\ closedAt[i].logs[1] <= m
                  /\ m <= closedAt[i].logs[Len(closedAt[i].logs)]
                  /\ issue_key(logs[m].os, logs[m].component)
                         = issuesStream[i].issue_key)
               => m \in SeqToSet(closedAt[i].logs)

\* C13 witness: an Issue that received two logs was published.
C13_Witness ==
    \E i \in 1..Len(closedAt) :
        /\ Len(closedAt[i].logs) >= 2
        /\ closedAt[i].at - closedAt[i].seen >= ISSUE_INACTIVITY_SEC

\* the Issue that starts with log m is open, no further log will reach it
\* (every log of the run was produced and processed) and the clock can
\* still get ISSUE_INACTIVITY_SEC past its last log
StoppedReceiving(m) ==
    /\ \E i \in 1..Len(issues) :
           /\ issues[i].logs[1] = m
           /\ issues[i].last_seen_at + ISSUE_INACTIVITY_SEC <= MaxClock
    /\ Len(logs) = MaxLogs
    /\ lastDelivered = MaxLogs
    /\ batch = << >>

\* the Issue that starts with log m was published and is out of the map
PublishedAndRemoved(m) ==
    /\ RecordsOf(m) # {}
    /\ \A i \in 1..Len(issues) : issues[i].logs[1] # m

\* every record carries the first logs of its Issue, in arrival order, at
\* most ISSUE_MAX_LOGS_FOR_LLM of them
RecordCarriesFirstLogs ==
    \A i \in 1..Len(issuesStream) :
        LET rec == issuesStream[i].logs
            all == closedAt[i].logs
        IN /\ Len(rec) <= ISSUE_MAX_LOGS_FOR_LLM
           /\ Len(rec) = Min(Len(all), ISSUE_MAX_LOGS_FOR_LLM)
           /\ rec = SubSeq(all, 1, Len(rec))
           /\ \A j \in 1..(Len(rec) - 1) : rec[j] < rec[j + 1]

\* C14: every open Issue that stops receiving logs is eventually published
\* to issues:candidates and removed from the issue map, and every published
\* record carries at most ISSUE_MAX_LOGS_FOR_LLM logs, the first ones of the
\* Issue in arrival order.
C14_IdleIssueEventuallyPublished ==
    /\ []RecordCarriesFirstLogs
    /\ \A m \in MsgIds : StoppedReceiving(m) ~> PublishedAndRemoved(m)

\* C14 witness: an Issue with more logs than the cap was published and
\* removed.
C14_Witness ==
    \E i \in 1..Len(issuesStream) :
        /\ Len(closedAt[i].logs) > ISSUE_MAX_LOGS_FOR_LLM
        /\ PublishedAndRemoved(closedAt[i].logs[1])

(***************************************************************************)
(* Properties of republished candidates                                    *)
(***************************************************************************)
\* the candidates of cluster c whose XADD raised: the error is swallowed and
\* the candidate is lost
LostCandidates(c) ==
    Cardinality({ m \in MsgIds : errorOf[m] = "xadd" /\ logMeta[m] = c })

\* C15 as stated: with republishing enabled and no minimum interval, a
\* cluster whose counter is count >= min_count has
\* 1 + floor((count - min_count) / republish_every) candidates.
C15_CountFromThreshold ==
    (repubEvery > 0 /\ minInterval = 0) =>
        \A c \in ClusterIds :
            count[c] >= CLUSTER_MIN_LOGS_FOR_CLASSIFICATION =>
                CandidatesOf(c) =
                    1 + ((count[c] - CLUSTER_MIN_LOGS_FOR_CLASSIFICATION)
                            \div repubEvery)

\* C15: with republishing enabled and no minimum interval, for a cluster
\* whose counter is count >= min_count the candidates published plus those
\* lost to a failed XADD are one for the threshold and one for every
\* multiple of republish_every in (min_count, count]:
\* 1 + floor(count / republish_every) - floor(min_count / republish_every).
C15_CountOfMultiples ==
    (repubEvery > 0 /\ minInterval = 0) =>
        \A c \in ClusterIds :
            count[c] >= CLUSTER_MIN_LOGS_FOR_CLASSIFICATION =>
                CandidatesOf(c) + LostCandidates(c) =
                    1 + (count[c] \div repubEvery)
                      - (CLUSTER_MIN_LOGS_FOR_CLASSIFICATION \div repubEvery)

\* C15 witness: a counter past the threshold by a number of hits that is no
\* multiple of republish_every, and a republished candidate in the stream.
C15_Witness ==
    /\ repubEvery > 1
    /\ minInterval = 0
    /\ \E c \in ClusterIds :
           /\ count[c] > CLUSTER_MIN_LOGS_FOR_CLASSIFICATION
           /\ (count[c] - CLUSTER_MIN_LOGS_FOR_CLASSIFICATION) % repubEvery # 0
           /\ CandidatesOf(c) = 2

\* the entries of clusters:candidates for cluster c, by position
EntriesOf(c) == { i \in 1..Len(candidates) : candidates[i].cluster_id = c }

\* C16: a republished candidate of a cluster is emitted only if at least
\* CLUSTER_CANDIDATE_REPUBLISH_MIN_INTERVAL_SEC passed since the previous
\* candidate of that cluster (times as the worker reads them: its now).
C16_RepublishOnlyAfterMinInterval ==
    \A i, j \in 1..Len(candidates) :
        (/\ i < j
         /\ candidates[i].cluster_id = candidates[j].cluster_id
         /\ candidates[j].count # CLUSTER_MIN_LOGS_FOR_CLASSIFICATION)
        => candidates[j].ts - candidates[i].ts >= minInterval


\* C17: the first entry of clusters:candidates for a cluster is the one
\* emitted when its counter equalled CLUSTER_MIN_LOGS_FOR_CLASSIFICATION; no
\* republished candidate of the cluster comes before it.
C17_ThresholdCandidateFirst ==
    \A c \in ClusterIds :
        EntriesOf(c) # {} =>
            LET first == CHOOSE i \in EntriesOf(c) :
                             \A j \in EntriesOf(c) : i <= j
            IN candidates[first].count = CLUSTER_MIN_LOGS_FOR_CLASSIFICATION


\* C18: with CLUSTER_CANDIDATE_REPUBLISH_EVERY = 0 no cluster ever has more
\* than one candidate, whatever its counter, and no key
\* cluster:last_candidate_ts:<os>:<cluster_id> is written.
C18_NeverRepublishWhenDisabled ==
    repubEvery = 0 =>
        \A c \in ClusterIds : CandidatesOf(c) <= 1 /\ lastTs[c] = EpochTs

\* C18 witness: republishing is disabled and a counter went past the
\* threshold after its candidate was published.
C18_Witness ==
    /\ repubEvery = 0
    /\ \E c \in ClusterIds :
           /\ count[c] > CLUSTER_MIN_LOGS_FOR_CLASSIFICATION
           /\ CandidatesOf(c) = 1


(***************************************************************************)
(* Properties of persist_alert and add_feedback                            *)
(***************************************************************************)
\* what persist_alert and add_feedback can write
StoreKeys == << hash, persistedSet, correctSet, incorrectSet >>

\* request r takes a step
StepOf(r) == reqs'[r] # reqs[r]

\* persist_alert returned ok: hash there, no TTL, id in the persisted set
PersistReturnedOk ==
    \A r \in ReqIds :
        (reqs[r].op = "persist" /\ reqs[r].status = 200) =>
            /\ hash[reqs[r].id].exists
            /\ hash[reqs[r].id].ttl = -1
            /\ reqs[r].id \in persistedSet

\* persist_alert answers 404 only when it found neither the hash nor the
\* stream entry, and its steps up to the 404 write nothing
Persist404ChangesNothing ==
    \A r \in ReqIds :
        (StepOf(r) /\ reqs[r].op = "persist" /\ reqs'[r].status = 404) =>
            /\ ~hash[reqs[r].id].exists
            /\ reqs[r].id \notin 1..Len(alerts)
            /\ UNCHANGED StoreKeys

\* a hash the request finds absent while the stream has the entry is there
\* after the rebuild step
PersistRebuilds ==
    \A r \in ReqIds :
        (StepOf(r) /\ reqs[r].op = "persist" /\ reqs[r].pc = "rebuild"
           /\ reqs[r].id \in 1..Len(alerts)) => hash'[reqs[r].id].exists

\* the steps of persist_alert for an alert that is already persisted change
\* nothing
PersistAgainChangesNothing ==
    \A r \in ReqIds :
        (/\ StepOf(r) /\ reqs[r].op = "persist"
         /\ hash[reqs[r].id].exists /\ hash[reqs[r].id].ttl = -1
         /\ reqs[r].id \in persistedSet) => UNCHANGED StoreKeys

\* C19: persist_alert(id) answers 404 and changes no key or set when neither
\* the hash nor a stream entry exists; otherwise on return the hash exists
\* (rebuilt from the stream entry when it was absent), has no TTL and id is
\* in ALERTS_PERSISTED_SET; persisting again changes nothing.
C19_PersistContract ==
    /\ []PersistReturnedOk
    /\ [][Persist404ChangesNothing]_vars
    /\ [][PersistRebuilds]_vars
    /\ [][PersistAgainChangesNothing]_vars


\* the feedback set a kind names, and the other one
SetOf(kind) == IF kind = "correct" THEN correctSet ELSE incorrectSet

OtherSetOf(kind) == IF kind = "correct" THEN incorrectSet ELSE correctSet

\* a successful add_feedback leaves the id in the set of its kind only, and
\* the hash field feedback equal to its kind
FeedbackTakesEffect ==
    \A r \in ReqIds :
        (StepOf(r) /\ reqs[r].op = "feedback" /\ reqs'[r].status = 200) =>
            /\ reqs[r].id \in SetOf(reqs[r].kind)'
            /\ reqs[r].id \notin OtherSetOf(reqs[r].kind)'
            /\ hash'[reqs[r].id].exists
            /\ hash'[reqs[r].id].feedback = reqs[r].kind

\* nothing but a successful add_feedback changes the feedback sets or the
\* feedback field of a hash that stays
FeedbackOnlyByCalls ==
    (\/ correctSet' # correctSet
     \/ incorrectSet' # incorrectSet
     \/ \E a \in AlertIds : /\ hash[a].exists /\ hash'[a].exists
                            /\ hash'[a].feedback # hash[a].feedback)
    => \E r \in ReqIds :
           StepOf(r) /\ reqs[r].op = "feedback" /\ reqs'[r].status = 200

\* C20: after any sequence of successful add_feedback calls for an id, the
\* id is in exactly the feedback set the last call names and the hash field
\* feedback is the last call's kind.
C20_LastFeedbackWins ==
    /\ [][FeedbackTakesEffect]_vars
    /\ [][FeedbackOnlyByCalls]_vars

\* C20 witness: correct and then incorrect were given for one id; the id is
\* in the incorrect set only.
C20_Witness ==
    \E r, q \in ReqIds :
        /\ reqs[r].op = "feedback" /\ reqs[q].op = "feedback"
        /\ reqs[r].kind = "correct" /\ reqs[q].kind = "incorrect"
        /\ reqs[r].id = reqs[q].id
        /\ reqs[r].status = 200 /\ reqs[q].status = 200
        /\ reqs[r].id \in incorrectSet \ correctSet
        /\ hash[reqs[r].id].feedback = "incorrect"


\* add_feedback answers 404 only when it found no hash, and its steps up to
\* the 404 write nothing
Feedback404WritesNothing ==
    \A r \in ReqIds :
        (StepOf(r) /\ reqs[r].op = "feedback" /\ reqs'[r].status = 404) =>
            /\ ~hash[reqs[r].id].exists
            /\ UNCHANGED StoreKeys

\* a step of add_feedback that finds no hash answers 404
FeedbackAbsentIs404 ==
    \A r \in ReqIds :
        (StepOf(r) /\ reqs[r].op = "feedback" /\ reqs[r].pc = "exists"
           /\ ~hash[reqs[r].id].exists) => reqs'[r].status = 404

\* the writes of add_feedback are not applied to an alert whose hash does
\* not exist when they are applied
FeedbackWritesNeedHash ==
    \A r \in ReqIds :
        (StepOf(r) /\ reqs[r].op = "feedback" /\ ~hash[reqs[r].id].exists) =>
            /\ ~hash'[reqs[r].id].exists
            /\ (reqs[r].id \in correctSet') = (reqs[r].id \in correctSet)
            /\ (reqs[r].id \in incorrectSet') = (reqs[r].id \in incorrectSet)

\* C21: add_feedback(id, kind) answers 404 and writes nothing when the hash
\* alert:<id> does not exist, and never creates the hash nor adds id to a
\* feedback set when the hash does not exist at the time the writes are
\* applied.
C21_FeedbackRequiresHash ==
    /\ [][Feedback404WritesNothing]_vars
    /\ [][FeedbackAbsentIs404]_vars
    /\ [][FeedbackWritesNeedHash]_vars


(***************************************************************************)
(* Properties of list_alerts                                               *)
(***************************************************************************)
\* C22: list_alerts(limit, env_id) returns at most limit alerts, no id
\* twice, the newest first by the time prefix of the stream id (a later
\* millisecond, or the same millisecond and a higher sequence number, comes
\* first), and with env_id given every alert has env_id in its env_ids or as
\* its env_id.
C22_ListNewestFirstNoRepeat ==
    lastList.called =>
        LET out == lastList.out
        IN /\ Len(out) <= lastList.limit
           /\ \A j, k \in 1..Len(out) : out[j].id = out[k].id => j = k
           /\ \A k \in 1..(Len(out) - 1) : TimeLess(out[k + 1].id, out[k].id)
           /\ lastList.env_id # NoEnv =>
                  \A k \in 1..Len(out) :
                      \/ lastList.env_id \in SeqToSet(out[k].env_ids)
                      \/ out[k].env_id = lastList.env_id

\* the same call made again, the store unchanged: the same list
ListStable ==
    lastList.called =>
        \A ok \in BOOLEAN :
            list_alerts(listStore, lastList.limit, lastList.env_id, ok) = lastList.out

\* a call with a larger limit, the store unchanged: every alert of the
\* smaller list is in the larger one
ListMonotone ==
    lastList.called =>
        \A limit2 \in lastList.limit..MaxLimit, ok \in BOOLEAN :
            LET out2 == list_alerts(listStore, limit2, lastList.env_id, ok)
            IN \A k \in 1..Len(lastList.out) :
                   \E j \in 1..Len(out2) : out2[j] = lastList.out[k]

\* C23: list_alerts is stable and monotone in limit: with no write to the
\* stream, the hashes or the persisted set in between, two calls with the
\* same arguments return the same list, and for limit1 <= limit2 and the
\* same env_id every alert returned for limit1 is returned for limit2.
C23_ListStableAndMonotone == ListStable /\ ListMonotone


(***************************************************************************)
(* Properties of assign_or_create_cluster: failures and new prototypes     *)
(***************************************************************************)
ProtoIds(P) == { p.id : p \in P }

\* the last call had no prototype of its os within the threshold
NoneWithinThreshold ==
    \/ NearestBefore = << >>
    \/ NearestBefore[1].distance > EffectiveThreshold(lastCall.threshold)

\* C24: assign_or_create_cluster never raises to its caller and always
\* returns a non-empty cluster id: a failed lookup gives a newly generated
\* id, a failed persist still returns the generated id, and a failure of the
\* metrics recording leaves the returned id what it is without the failure.
C24_NeverRaisesAlwaysReturnsId ==
    lastCall.called =>
        /\ ~lastCall.raised
        /\ lastCall.cid # NoCluster
        /\ lastCall.fault = "lookup" =>
               /\ lastCall.cid = lastCall.fresh
               /\ lastCall.cid \notin ProtoIds(lastCall.before)
        /\ (lastCall.fault = "add" /\ NoneWithinThreshold) =>
               lastCall.cid = lastCall.fresh
        /\ lastCall.fault = "metrics" =>
               lastCall.cid =
                   assign_or_create_cluster(lastCall.before, lastCall.os,
                       lastCall.text, lastCall.threshold, "none",
                       lastCall.fresh).cid

\* C24 witness: the lookup failed although a prototype of the os was within
\* the threshold, and the call returned a generated id.
C24_Witness ==
    /\ lastCall.called
    /\ lastCall.fault = "lookup"
    /\ ~NoneWithinThreshold
    /\ lastCall.cid = lastCall.fresh
    /\ ~lastCall.raised

\* C25: when no prototype of the os exists or the nearest one is farther
\* than the threshold, the call adds exactly one prototype with a fresh id,
\* document = templated, label "unknown", rationale "online", size 1 and
\* created_by "online", leaves the existing prototypes unchanged and returns
\* the new id.
C25_CreatesOnePrototype ==
    (lastCall.called /\ NoneWithinThreshold) =>
        /\ lastCall.cid \notin ProtoIds(lastCall.before)
        /\ lastCall.before \subseteq protos
        /\ protos \ lastCall.before =
               { [id |-> lastCall.cid, os |-> lastCall.os, text |-> lastCall.text,
                  label |-> "unknown", rationale |-> "online",
                  size |-> 1, created_by |-> "online",
                                       solution |-> NoSolution] }


(***************************************************************************)
(* Properties of the correlation query handlers                            *)
(***************************************************************************)
\* C26: get_global_correlation and get_global_correlation_graph never
\* answer a backend failure with an error response: in every dispatch mode
\* a computation that raises yields status 200 with an empty payload whose
\* params.error is "clustering_failed".
C26_BackendFailureGivesErrorPayload ==
    (lastCorr.called /\ lastCorr.failed # {}) =>
        /\ lastCorr.status = 200
        /\ lastCorr.payload.empty
        /\ lastCorr.payload.error = "clustering_failed"

\* the last request was GET /correlation/global with DISABLE_HDBSCAN set
C27_Case ==
    /\ lastCorr.called
    /\ lastCorr.route = "global"
    /\ toggles.disable_hdbscan

EnvReturned == lastEnv.called /\ lastEnv.status = 200

\* the keywords the specification names for the severity
SeverityKeywords ==
    { "failed", "error", "critical", "i/o error", "out of memory", "servfail",
      "timeout" }

\* C28: the severity of a cluster overlay of environment_correlation is
\* critical exactly when the lower-cased medoid contains one of failed,
\* error, critical, i/o error, out of memory, servfail, timeout, warning
\* otherwise, and equals the severity list_incidents gives the same medoid.
C28_SeverityByKeywords ==
    EnvReturned =>
        \A k \in 1..Len(lastEnv.payload.clusters) :
            LET o == lastEnv.payload.clusters[k]
            IN /\ o.severity \in {"critical", "warning"}
               /\ o.severity = "critical" <=>
                      \E x \in SeverityKeywords : ContainsKeyword(o.medoid, x)
               /\ o.severity = incident_severity_from_medoid(o.medoid)

\* the overlays of the last payload whose host_breakdown has node h
OverlaysWith(h) ==
    { k \in 1..Len(lastEnv.payload.clusters) :
          h \in DOMAIN lastEnv.payload.clusters[k].host_breakdown }

\* C29: every entry of node_impacts has severity warning or critical, it is
\* critical if and only if a cluster with that node in its host_breakdown is
\* critical, and its clusters list names exactly the clusters whose
\* host_breakdown contains the node.
C29_NodeImpactFromItsClusters ==
    EnvReturned =>
        LET impacts == lastEnv.payload.node_impacts
            overlays == lastEnv.payload.clusters
        IN /\ \A h \in DOMAIN impacts :
                  /\ impacts[h].severity \in {"warning", "critical"}
                  /\ impacts[h].severity = "critical" <=>
                         \E k \in OverlaysWith(h) : overlays[k].severity = "critical"
                  /\ { impacts[h].clusters[j].id : j \in 1..Len(impacts[h].clusters) }
                         = { overlays[k].id : k \in OverlaysWith(h) }
                  /\ Len(impacts[h].clusters) = Cardinality(OverlaysWith(h))
           /\ \A k \in 1..Len(overlays) :
                  DOMAIN overlays[k].host_breakdown \subseteq DOMAIN impacts

\* C29 witness: a node of two clusters, the first processed critical and the
\* second warning, is critical.
C29_Witness ==
    /\ EnvReturned
    /\ Len(envClusters) = 2
    /\ HasOverlay(envClusters[1]) /\ HasOverlay(envClusters[2])
    /\ severity_from_medoid(envClusters[1].medoid) = "critical"
    /\ severity_from_medoid(envClusters[2].medoid) = "warning"
    /\ \E h \in DOMAIN lastEnv.payload.node_impacts :
           /\ Cardinality(OverlaysWith(h)) = 2
           /\ lastEnv.payload.node_impacts[h].severity = "critical"

\* C30: in every overlay returned, the host identifiers extracted from each
\* entry of sample_logs are keys of host_breakdown, and no overlay without
\* host identifiers is returned.
C30_SampleHostsInBreakdown ==
    EnvReturned =>
        \A k \in 1..Len(lastEnv.payload.clusters) :
            LET o == lastEnv.payload.clusters[k]
            IN /\ DOMAIN o.host_breakdown # {}
               /\ \A j \in 1..Len(o.sample_logs) :
                      SeqToSet(extract_host_identifiers(o.sample_logs[j]))
                          \subseteq DOMAIN o.host_breakdown

\* C30 witness: an overlay came back whose kept sample log names a host
\* twice (as name and as ip) and another host, while a cluster whose only
\* line does not parse got no overlay.
C30_Witness ==
    /\ EnvReturned
    /\ Len(envClusters) = 2
    /\ Len(lastEnv.payload.clusters) = 1
    /\ \E c \in SeqToSet(envClusters) :
           c.id # "" /\ c.samples # << >> /\ ~HasOverlay(c)
    /\ LET o == lastEnv.payload.clusters[1]
       IN /\ Len(o.sample_logs) = 1
          /\ extract_host_identifiers(o.sample_logs[1]) = << "h1", "h2" >>
          /\ DOMAIN o.host_breakdown = {"h1", "h2"}

(***************************************************************************)
(* C31: the counter counts assignments                                     *)
(***************************************************************************)
\* the step processes the message at the head of the batch
ProcessesHead == pc = "proc" /\ batch # << >> /\ batch' = Tail(batch)

\* the cluster id the message body of this step got from
\* assign_or_create_cluster; NoCluster when the call was not reached or raised
AssignedInStep ==
    LET id == Head(batch)
        fault == errorOf'[id]
    IN IF fault \in {"parse", "assign"} THEN NoCluster
       ELSE assign_or_create_cluster(protos, logs[id].os, logs[id].text, << >>,
                                     fault, nextId).cid

\* no counter ever decreases
CounterMonotonic == \A c \in ClusterIds : count'[c] >= count[c]

\* a counter only moves, by one, in the step that assigned a message to it
CounterOnlyByAssignment ==
    \A c \in ClusterIds :
        count'[c] # count[c] =>
            ProcessesHead /\ AssignedInStep = c /\ count'[c] = count[c] + 1

\* every assignment moves the counter of its cluster
AssignmentCounted ==
    ProcessesHead /\ AssignedInStep # NoCluster =>
        count'[AssignedInStep] = count[AssignedInStep] + 1

\* a failed assignment changes no counter, emits no candidate, and the
\* message is still added to its Issue
FailedAssignmentCountsNothing ==
    ProcessesHead /\ errorOf'[Head(batch)] = "assign" =>
        /\ count' = count
        /\ candidates' = candidates
        /\ appended'[Head(batch)] = appended[Head(batch)] + 1

\* the first line of a cluster brings its counter to 1 and, the threshold
\* being above 1, emits no candidate
FirstLineNoCandidate ==
    \A c \in ClusterIds :
        count[c] = 0 /\ count'[c] = 1
            /\ CLUSTER_MIN_LOGS_FOR_CLASSIFICATION > 1 => candidates' = candidates

C31_Step ==
    /\ CounterMonotonic
    /\ FirstLineNoCandidate
    /\ CounterOnlyByAssignment
    /\ AssignmentCounted
    /\ FailedAssignmentCountsNothing

\* C31: cluster:count:<os>:<cluster_id> never decreases, moves by exactly one
\* for each message the aggregator assigned to the cluster and by nothing
\* else, and a message whose assignment failed changes no counter and emits
\* no candidate while it is still added to its Issue.
C31_CounterCountsAssignments == [][C31_Step]_vars

(***************************************************************************)
(* C32: errors of the neighbor lookup                                      *)
(***************************************************************************)
\* the prototype of the candidate of the last run of the body exists, so
\* that the neighbor query was made
BodyQueried ==
    get_prototype(bodyIn.protos, bodyIn.data.os, bodyIn.data.cluster_id) # << >>

\* C32: a neighbor query that fails with a corrupted-index error is
\* swallowed: the candidate is classified with an empty neighbor list and its
\* alert is published; any other error of the neighbor query ends the body:
\* no alert is published and the prototype metadata stays as it was.
C32_NeighborErrors ==
    lastBody.called /\ BodyQueried =>
        /\ lastBody.fault = "neighbors_index" =>
               /\ ~lastBody.out.raised
               /\ lastBody.out.classified
               /\ lastBody.out.neighbors = << >>
               /\ Len(lastBody.out.alerts) = 1
        /\ lastBody.fault = "neighbors_other" =>
               /\ lastBody.out.raised
               /\ lastBody.out.alerts = << >>
               /\ lastBody.out.protos = bodyIn.protos

C32_Witness ==
    /\ lastBody.called /\ BodyQueried
    /\ lastBody.fault = "neighbors_index"
    /\ bodyIn.nbrs # << >>
    /\ Len(lastBody.out.alerts) = 1
    /\ lastBody.out.protos # bodyIn.protos

(***************************************************************************)
(* C33: the fields of a listed alert                                       *)
(***************************************************************************)
\* the value a merge that prefers the hash gives the fields of alert a: the
\* hash's value when the hash has the field, else the stream entry's
MergedFields(a) ==
    IF a.hash = "full" THEN HashFields(a)
    ELSE IF a.in_stream THEN StreamFields(a)
    ELSE HashFields(a)

\* every listed alert shows the merged fields
ListedFieldsMerged ==
    lastList.called =>
        \A k \in 1..Len(lastList.out) :
            LET a == AlertOf(listStore, lastList.out[k].id)
            IN /\ lastList.out[k].type = MergedFields(a).type
               /\ lastList.out[k].env_ids = MergedFields(a).env_ids

\* persisted is true exactly for the members of the persisted set
ListedPersistedFlag ==
    lastList.called =>
        \A k \in 1..Len(lastList.out) :
            lastList.out[k].persisted
                <=> AlertOf(listStore, lastList.out[k].id).persisted

\* C33: every entry list_alerts returns takes each field from the hash
\* alert:<id> when the hash has the field and from the stream entry
\* otherwise, and its persisted flag is true exactly when the id is in
\* ALERTS_PERSISTED_SET.
C33_ListedAlertIsMerged == ListedFieldsMerged /\ ListedPersistedFlag

\* the persisted flag, when the SMEMBERS of the call answered
ListedPersistedFlagWhenRead ==
    lastList.called /\ lastList.smembers_ok =>
        \A k \in 1..Len(lastList.out) :
            lastList.out[k].persisted
                <=> AlertOf(listStore, lastList.out[k].id).persisted

(***************************************************************************)
(* C34, C40: what the enricher writes to the prototype                     *)
(***************************************************************************)
\* the enricher's step runs the body for the candidate at the head
EnrProcesses ==
    epc = "proc" /\ ebatch # << >> /\ ebatch' = Tail(ebatch) /\ epc' = "ack"

\* the prototype of cluster cid of os in the collection P
ProtoOf(P, os, cid) == get_prototype(P, os, cid)[1]

\* every prototype is as the clusterer created it (rationale online, label
\* unknown, no solution) or as the enricher rewrote it (rationale llm_cluster)
ProtoRationales ==
    \A q \in protos :
        /\ q.rationale \in {"online", "llm_cluster"}
        /\ q.rationale = "online" => q.label = "unknown" /\ q.solution = NoSolution

\* the body ran without any failing call for a candidate whose prototype
\* exists: the prototype has the label and rationale of the classification,
\* the solution when there is a recommendation, and nothing else changed
ProtoUpdatedByBody ==
    EnrProcesses /\ faults' = faults =>
        LET data == candidates[Head(ebatch)]
            os == data.os
            cid == data.cluster_id
        IN get_prototype(protos, os, cid) # << >> =>
               /\ Len(alerts') = Len(alerts) + 1
               /\ get_prototype(protos', os, cid) # << >>
               /\ LET old == ProtoOf(protos, os, cid)
                      new == ProtoOf(protos', os, cid)
                      ftype == alerts'[Len(alerts')].failure_type
                  IN /\ new.label = ftype
                     /\ new.rationale = "llm_cluster"
                     /\ new.solution = IF Recommendation(ftype) # NoSolution
                                       THEN Recommendation(ftype) ELSE old.solution
                     /\ new = [old EXCEPT !.label = new.label,
                                          !.rationale = new.rationale,
                                          !.solution = new.solution]
                     /\ protos' \ {new} = protos \ {old}

\* C34: after the enricher processed a candidate without error for a
\* cluster whose prototype exists, the prototype has label = the classified
\* failure_type, rationale = "llm_cluster" and solution = the recommendation
\* when one was returned, its other fields are unchanged; and in every state
\* a prototype's rationale is online, with label unknown, or llm_cluster.
C34_PrototypeLearnsLabel == []ProtoRationales /\ [][ProtoUpdatedByBody]_vars

C34_Witness ==
    \E q \in protos, i \in 1..Len(alerts) :
        /\ q.rationale = "llm_cluster"
        /\ q.label = "network" /\ q.solution = "restart"
        /\ q.size = 1 /\ q.created_by = "online"
        /\ alerts[i].cluster_id = q.id /\ alerts[i].failure_type = "network"


\* a prototype the enricher labelled has an alert of its cluster in the
\* alerts stream
LabelledHasAlert ==
    \A q \in protos :
        q.rationale = "llm_cluster" =>
            \E i \in 1..Len(alerts) :
                alerts[i].cluster_id = q.id /\ alerts[i].os = q.os

\* a run of the body that appended no alert leaves the prototypes alone
NoAlertNoUpdate ==
    EnrProcesses /\ alerts' = alerts => protos' = protos

\* C40: the enricher updates the prototype metadata only after the alert of
\* the candidate was appended to the alerts stream: in every state a
\* prototype with rationale "llm_cluster" has an alert with its cluster_id in
\* the stream, and a candidate whose alert was not published leaves the
\* prototype metadata unchanged.
C40_LabelOnlyFromPublishedAlert == []LabelledHasAlert /\ [][NoAlertNoUpdate]_vars

C40_Witness ==
    \E c \in CandIds :
        /\ c <= Len(candidates)
        /\ ebody[c] = "raised" /\ c \in exackArgs
        /\ AlertsOf(c) = 0
        /\ \E q \in protos :
               /\ q.id = candidates[c].cluster_id
               /\ q.rationale = "online" /\ q.label = "unknown"
        /\ \E q \in protos : q.rationale = "llm_cluster"

(***************************************************************************)
(* C35: the evidence and the environments of a published alert             *)
(***************************************************************************)
\* the lookup of the cluster's logs in logs_<os> returned nothing or failed
LookupEmpty == lastBody.fault = "logs_get" \/ bodyIn.docs = << >>

\* the env_id values, other than none, of a list of logs
EnvValues(s) == { s[i].env_id : i \in 1..Len(s) } \ {""}

\* C35: an alert the enricher publishes has at most 30 (EvidenceLimit)
\* evidence logs; they are the candidate's sample logs exactly when the
\* lookup in logs_<os> returned nothing or failed, and documents of the
\* collection otherwise; env_ids is the set of the env_id values of the
\* evidence, or the candidate's env_ids when that set is empty; env_id is
\* not empty exactly when env_ids has one element, and then is that element.
C35_EvidenceAndEnvIds ==
    lastBody.called /\ lastBody.out.alerts # << >> =>
        LET a == lastBody.out.alerts[1]
            ev == a.evidence_logs
            n == Min(Len(bodyIn.data.sample_logs), SampleLogsCut)
        IN /\ Len(ev) <= EvidenceLimit
           /\ lastBody.out.used_samples <=> LookupEmpty
           /\ IF LookupEmpty
              THEN /\ Len(ev) = n
                   /\ \A i \in 1..n :
                          /\ ev[i].id = NoDocId
                          /\ ev[i].env_id = bodyIn.data.sample_logs[i].env_id
              ELSE \A i \in 1..Len(ev) :
                       /\ ev[i].id \in 1..Len(bodyIn.docs)
                       /\ ev[i].env_id = bodyIn.docs[ev[i].id].env_id
           /\ a.env_ids = IF EnvValues(ev) # {} THEN EnvValues(ev)
                          ELSE bodyIn.data.env_ids
           /\ a.env_id # "" <=> Cardinality(a.env_ids) = 1
           /\ a.env_id # "" => a.env_ids = {a.env_id}

C35_Witness ==
    /\ lastBody.called /\ lastBody.out.alerts # << >>
    /\ Len(bodyIn.docs) > EvidenceLimit
    /\ bodyIn.data.sample_logs # << >>
    /\ bodyIn.data.env_ids = {"e2"}
    /\ Len(lastBody.out.alerts[1].evidence_logs) = EvidenceLimit
    /\ lastBody.out.alerts[1].env_ids = {"e1"}
    /\ lastBody.out.alerts[1].env_id = "e1"


\* 2^k
RECURSIVE Pow2(_)
Pow2(k) == IF k = 0 THEN 1 ELSE 2 * Pow2(k - 1)

\* the delay slept before the n-th restart of every worker is
\* min(2^(n-1), 10), and within [1, 10]
DelaysFollowBackoff ==
    \A w \in Workers : \A n \in 1..Len(sup[w].delays) :
        /\ sup[w].delays[n] = Min(Pow2(n - 1), BackoffCap)
        /\ sup[w].delays[n] >= 1
        /\ sup[w].delays[n] <= BackoffCap

\* a crash never ends the supervisor: the worker is either running or the
\* supervisor sleeps before running it again
CrashTrapped == \A w \in Workers : sup[w].at \in {"running", "sleeping"}

\* C36: the supervisors of the aggregator and of the enricher trap every
\* crash of the worker and restart it: after each crash the worker is
\* eventually run again, the delay before the n-th restart is
\* min(2^(n-1), 10) seconds, and the delay is always within [1, 10] seconds.
C36_SupervisorRestartsWithBackoff ==
    /\ [](DelaysFollowBackoff /\ CrashTrapped)
    /\ \A w \in Workers : (sup[w].at = "sleeping") ~> (sup[w].at = "running")

\* both workers crashed often enough to reach the cap twice and run again
C36_Witness ==
    \A w \in Workers :
        /\ sup[w].at = "running"
        /\ sup[w].delays = << 1, 2, 4, 8, BackoffCap, BackoffCap >>


\* the handler ran the HDBSCAN computation, which returned no cluster
HdbscanEmpty == lastCorr.called /\ lastCorr.hdb = "empty"

\* the handler ran the HDBSCAN computation, which returned clusters
HdbscanFound == lastCorr.called /\ lastCorr.hdb = "clusters"

\* the payload answered is the one of the single pass over logs
SinglePassPayload ==
    /\ lastCorr.status = 200
    /\ lastCorr.payload.basis = "logs"
    /\ lastCorr.payload.algorithm = "single_pass"

CachedRequest ==
    lastReq.handler \in {"correlation", "environment_correlation", "list_incidents"}

\* the request found an entry under its key that was at most
\* CACHE_TTL_SEC old
HitFresh ==
    /\ lastReq.hit.found
    /\ lastReq.at - lastReq.hit.ts <= CACHE_TTL_SEC

\* a cached payload is the payload of an entry at most CACHE_TTL_SEC old
CachedOnlyWhenFresh ==
    (CachedRequest /\ lastReq.cached) =>
        HitFresh /\ lastReq.payload = lastReq.hit.payload

\* a cached payload was computed for the effective parameters of the request
CachedOnlyForEqualParams ==
    (CachedRequest /\ lastReq.cached) =>
        lastReq.hit.found /\ lastReq.hit.for = lastReq.for

\* a request that finds a fresh entry runs no computation
FreshNotRecomputed ==
    (CachedRequest /\ HitFresh) =>
        /\ ~lastReq.ran
        /\ lastReq.status = 200 => lastReq.cached

\* a payload answered after computing replaces the entry of the key
ComputedIsStored ==
    (CachedRequest /\ lastReq.status = 200 /\ ~lastReq.cached) =>
        /\ lastReq.entry.found
        /\ lastReq.entry.payload = lastReq.payload
        /\ lastReq.entry.for = lastReq.for
        /\ lastReq.entry.ts >= lastReq.at

\* C38: the correlation caches have a 30 s TTL: a handler returns a cached
\* payload only for the same route and equal effective parameters (the same
\* env_id for the per-env cache) and only while the entry is at most 30 s
\* old; otherwise it recomputes and replaces the entry; every payload
\* answered after computing, error and disabled payloads included, is
\* stored, so that a repeated request within 30 s runs no computation.
C38_CacheTtl ==
    /\ CachedOnlyWhenFresh
    /\ CachedOnlyForEqualParams
    /\ FreshNotRecomputed
    /\ ComputedIsStored

\* what holds of C38: all of it for the caches of correlation.py and of
\* environments.py, and all but the equal parameters for list_incidents
CacheTtlButIncidentScope ==
    /\ CachedOnlyWhenFresh
    /\ lastReq.handler # "list_incidents" => CachedOnlyForEqualParams
    /\ FreshNotRecomputed
    /\ ComputedIsStored

\* list_incidents answers a request scoped to an environment with the cached
\* incidents of all environments
IncidentScopeMixed ==
    /\ lastReq.handler = "list_incidents"
    /\ lastReq.cached
    /\ lastReq.for = "__all__"
    /\ lastReq.hit.for = "None"
    /\ lastReq.payload = "incidents"


\* the last request was to a handler that discovers the environments
DiscoveryRequest ==
    lastReq.handler \in {"list_environments", "environment_detail",
                         "environment_correlation"}

\* the discovery of the last request did not give a set: it raised, it
\* exceeded its timeout, or clustering is disabled
DiscoveryDegraded ==
    toggles.disable_global \/ lastReq.outcome \in {"raises", "timeout"}

\* the environments the last request has to go by
ResultingEnvIds == IF DiscoveryDegraded THEN fallbackIds ELSE lastReq.discovered

\* C39: environment discovery degrades to the static fallback: in
\* list_environments, environment_detail and environment_correlation the
\* configured fallback set stands in for a discovery that raises or exceeds
\* its timeout, or when clustering is disabled; environment_detail and
\* environment_correlation answer 404 exactly when the requested env_id is
\* not in the resulting set, and then leave the correlation cache unchanged.
C39_DiscoveryFallsBack ==
    DiscoveryRequest =>
        /\ lastReq.handler = "list_environments" =>
              lastReq.status = 200 /\ lastReq.items = ResultingEnvIds
        /\ lastReq.handler # "list_environments" =>
              (lastReq.status = 404 <=> lastReq.key \notin ResultingEnvIds)
        /\ lastReq.status = 404 => ~lastReq.touched

\* environment_correlation answers 404 for an environment of the discovery
\* that timed out, the fallback set lacking it, while its cache holds the
\* payload of an earlier request
C39_Witness ==
    /\ lastReq.handler = "environment_correlation"
    /\ lastReq.outcome = "timeout"
    /\ lastReq.key \in lastReq.discovered
    /\ lastReq.key \notin fallbackIds
    /\ lastReq.status = 404
    /\ lastReq.hit.found
    /\ ~toggles.disable_global
====
